---- MODULE Spec2Model ----
(***************************************************************************)
(* GoBard: per-guild audio playback engine.                                *)
(*                                                                         *)
(*   Queue  (internal/player/track.go)     SpecQueue                       *)
(*   Cache  (internal/cache, part_002)     SpecCache                       *)
(*   Player (internal/player, part_002) and the play loop                  *)
(*          (internal/bot/commands.go)     Spec, SpecPlay                  *)
(*   Encoder (internal/player, part_003, ffmpeg_encoder.go) and the frame  *)
(*          loop of playTrack (part_002)   SpecEncoder                     *)
(*   Volume (internal/player, part_002) and the voice state handler        *)
(*          (internal/bot, part_001)       SpecVolume                      *)
(***************************************************************************)
EXTENDS Integers, Sequences, FiniteSets, TLC

(***************************************************************************)
(* Bounds of the model.                                                    *)
(***************************************************************************)
\* longest track list explored by SpecQueue
MaxTracks == 4
\* cache keys (one file name each) explored by SpecCache
MaxKeys == 2
\* largest file a producer writes; larger than CacheMaxSize so that an
\* oversized download is among the inputs
MaxFileSize == 3
\* the configured cache limit (config CACHE_LIMIT), in the same unit
CacheMaxSize == 2
\* concurrent GetOrCreate callers (background downloads)
MaxCallers == 2
\* last reading of time.Now() the cache takes
MaxClock == 4
\* modification times of the files found by NewCache lie in 0..MaxInitTime
MaxInitTime == 1
\* /play commands issued to the guild
MaxPlays == 2
\* tracks resolved and queued over a run of Spec
MaxQueued == 2
\* other commands (skip, seek, stop, disconnect, pause, resume) issued
MaxCmds == 2
\* playLoop goroutines ever started
MaxLoops == 2
\* playTrack goroutines ever started
MaxPumps == 3
\* Opus frames an encoder delivers for one track
MaxFrames == 1
\* duration of a track, in the unit of Seek positions
MaxDuration == 1
\* capacity of an encoder's frame channel (300, or 100 for a cached file)
FrameChanCap == 2
\* reads' worth of PCM the subprocess can write before it exits
MaxPcm == 3
\* reads' worth of PCM the pipe from the subprocess holds
PipeCap == 1
\* goroutines that call Cleanup on the encoder
MaxCleaners == 2
\* Cleanup calls made on the encoder
MaxCleanups == 3
\* the largest volume SetVolume accepts
VolumeMax == 100
\* the volume of a new player
VolumeDefault == 100
\* a volume between the limits, as an argument of SetVolume
VolumeMid == 50
\* a reduce-on-voice target a user configures
VolumeTarget == 20
\* samples per channel in one Opus frame (960 in the code, scaled down)
FrameSize == 1
\* channels of the PCM stream
Channels == 2
\* bytes of PCM the subprocess writes at most
MaxBytes == 12
\* formats in one yt-dlp result
MaxFormats == 2
\* goroutines that call into the manager and the player
MaxGoroutines == 3
\* GuildPlayers the manager creates for the guild
MaxPlayers == 2
\* the largest audio bitrate of a format
MaxAbr == 2

VARIABLES
    \* ---- Queue (track.go:33-39) ----
    Tracks,         \* Queue.Tracks: sequence of track ids (distinct *Track pointers)
    CurrentIndex,   \* Queue.CurrentIndex
    Loop,           \* Queue.Loop
    qlast,          \* SpecQueue only: the last Queue call, its arguments, result and pre-state
    \* ---- Cache (part_002:14-27) ----
    entries,        \* Cache.entries: key -> [Size, LastAccessed]
    files,          \* the cache directory: key (file name) -> size of the file
    clock,          \* next value of time.Now()
    goc,            \* GetOrCreate calls in flight: caller -> [pc, key, size, ret]
    clast,          \* the last completed cache call
    \* ---- GuildPlayer (part_002:297-320) ----
    VoiceConnection,  \* 0 for nil, else the id of the voice connection held
    nJoins,           \* voice connections opened so far
    speaking,         \* what vc.Speaking last set
    Playing,
    Paused,
    LoopRunning,
    CurrentPosition,
    stopChan,         \* chan bool, capacity 1: <<>> or <<n>>, n the number of
                      \* playTrack goroutines started before the Stop that sent it
    doneChan,         \* chan bool, capacity 1: <<>> or <<TRUE>>
    encoder,          \* p.encoder: 0 for nil, else the pump that built the encoder
    pumps,            \* playTrack goroutines and the encoder each one built
    nPumps,
    \* ---- bot (commands.go) ----
    loops,            \* playLoop goroutines
    nLoops,
    plays,            \* handlePlay calls
    cmds,             \* other command handlers
    nQueued,          \* tracks resolved so far
    reported,         \* tracks named in a "Track Failed" message
    skipWait,         \* how the play loop's wait ended after a skip
    \* ---- one encoder (part_003:126-135, ffmpeg_encoder.go:69-79) ----
    frameChan,        \* chan []byte: the frames buffered, named by their number
    frameClosed,      \* close(e.frameChan) has run
    encStopChan,      \* e.stopChan, capacity 1: <<>> or <<TRUE>>
    done,             \* e.done
    mu,               \* e.mu: 0 when free, else the Cleanup caller holding it
    ffmpeg,           \* the subprocess and its stdout pipe
    encodeLoop,       \* the encodeLoop goroutine
    frameCount,       \* frames encodeLoop has put into frameChan
    cleaners,         \* Cleanup callers
    playTrack,        \* the frame loop of the playTrack goroutine using the encoder
    trackStop,        \* a stop signal is waiting for that goroutine
    opusSend,         \* the frames written to vc.OpusSend, in order
    ehist,            \* what the Cleanup calls did so far
    \* ---- volume (part_002:307-312) ----
    Volume,
    OriginalVolume,
    ReduceOnVoice,
    ReduceOnVoiceTarget,
    vhist,            \* the volume in effect before the reduction in progress began
    vlast,            \* the last volume call, its argument, result and pre-state
    \* ---- PCM framing of encodeLoop (part_003:166-237) ----
    framing,  \* one encodeLoop run over a PCM stream: bytes read, frames emitted
    \* ---- stream URL selection (youtube.go:27-80) ----
    Formats,   \* SearchResult.Formats of one yt-dlp result: records [audio, video, abr, url]
    streamURL,  \* what extractBestAudioURL returned for them
    \* ---- manager, player, queue and encoder locks (part_002:325-683, part_003:250-274) ----
    holder,   \* for every mutex, the goroutine that holds it for writing (0: none)
    readers,   \* for every mutex, the goroutines that hold it for reading
    gos,   \* the goroutines that call into the player: [op, pc, p, track], pc is the call stack
    gp,   \* the GuildPlayers the manager has created, by number
    players,   \* Manager.players[guildID]: the number of the player in the map (0: none)
    nPlayers   \* GuildPlayers created so far

qvars == <<Tracks, CurrentIndex, Loop>>
cvars == <<entries, files, clock, goc, clast>>
pvars == <<VoiceConnection, nJoins, speaking, Playing, Paused, LoopRunning,
           CurrentPosition, stopChan, doneChan, encoder, pumps, nPumps,
           loops, nLoops, plays, cmds, nQueued, reported, skipWait>>

evars == <<frameChan, frameClosed, encStopChan, done, mu, ffmpeg, encodeLoop,
           frameCount, cleaners, playTrack, trackStop, opusSend, ehist>>

\* what the actions of one component leave alone
volvars == <<Volume, OriginalVolume, ReduceOnVoice, ReduceOnVoiceTarget, vhist, vlast>>
lvars == <<holder, readers, gos, gp, players, nPlayers>>
yvars == <<Formats, streamURL>>
fvars == <<framing>>

nonQueue == <<cvars, pvars, evars, volvars, fvars, yvars, lvars>>
nonCache == <<qvars, qlast, pvars, evars, volvars, fvars, yvars, lvars>>
nonPlayer == <<qlast, cvars, evars, volvars, fvars, yvars, lvars>>
nonEncoder == <<qvars, qlast, cvars, pvars, volvars, fvars, yvars, lvars>>

vars == <<Tracks, CurrentIndex, Loop, qlast, entries, files, clock, goc, clast,
          VoiceConnection, nJoins, speaking, Playing, Paused, LoopRunning,
          CurrentPosition, stopChan, doneChan, encoder, pumps, nPumps,
          loops, nLoops, plays, cmds, nQueued, reported, skipWait,
          frameChan, frameClosed, encStopChan, done, mu, ffmpeg, encodeLoop,
          frameCount, cleaners, playTrack, trackStop, opusSend, ehist,
          Volume, OriginalVolume, ReduceOnVoice, ReduceOnVoiceTarget, vhist, vlast,
          framing,
          Formats, streamURL,
          holder, readers, gos, gp, players, nPlayers>>

(***************************************************************************)
(* GuildPlayer state: Manager.GetPlayer (part_002:336-354)                 *)
(***************************************************************************)
Pumps == 1..MaxPumps
Loops == 1..MaxLoops
PlayCalls == 1..MaxPlays
Cmds == 1..MaxCmds

\* a playTrack goroutine that has not been started
NoPump ==
    [pc |-> "none", track |-> 0, vc |-> 0, left |-> 0, cleaned |-> FALSE,
     sent |-> FALSE, failed |-> FALSE, stale |-> FALSE, held |-> FALSE,
     count |-> 0, seek |-> -1]

\* a playLoop goroutine that has not been started
NoLoop == [pc |-> "none", track |-> 0, attempts |-> 0, pump |-> 0, again |-> 0]

NoCmd == [op |-> "none", pc |-> "new", arg |-> 0, len |-> 0]

\* GetPlayer: a fresh player with its queue, no voice connection, empty channels
PlayerNew ==
    /\ VoiceConnection = 0 /\ nJoins = 0 /\ speaking = FALSE
    /\ Playing = FALSE /\ Paused = FALSE /\ LoopRunning = FALSE
    /\ CurrentPosition = 0
    /\ stopChan = <<>> /\ doneChan = <<>>
    /\ encoder = 0
    /\ pumps = [i \in Pumps |-> NoPump] /\ nPumps = 0
    /\ loops = [l \in Loops |-> NoLoop] /\ nLoops = 0
    /\ plays = [h \in PlayCalls |-> "new"]
    /\ cmds = [c \in Cmds |-> NoCmd]
    /\ nQueued = 0
    /\ reported = {}
    /\ skipWait = [st |-> "none", loop |-> 0, last |-> FALSE]

(***************************************************************************)
(* Encoder state: NewStreamingEncoder (part_003:126-141),                  *)
(* NewCustomEncoder (ffmpeg_encoder.go:69-84)                              *)
(***************************************************************************)
Cleaners == 1..MaxCleaners

\* the subprocess just started: nothing written yet
FfmpegStarted == [st |-> "running", left |-> MaxPcm, pipe |-> 0]

IdleCleaner == "idle"

NoCleanup == [calls |-> 0, signals |-> 0, kills |-> 0, waits |-> 0,
              returns |-> 0, at |-> "none", overlap |-> FALSE]

\* a new encoder with its subprocess started and encodeLoop spawned, and the
\* playTrack goroutine that built it about to enter its frame loop
EncoderNew ==
    /\ frameChan = <<>> /\ frameClosed = FALSE
    /\ encStopChan = <<>>
    /\ done = FALSE /\ mu = 0
    /\ ffmpeg = FfmpegStarted
    /\ encodeLoop = [pc |-> "select", frame |-> 0]
    /\ frameCount = 0
    /\ cleaners = [k \in Cleaners |-> IdleCleaner]
    /\ playTrack = [pc |-> "stopchk", frame |-> 0]
    /\ trackStop = FALSE
    /\ opusSend = <<>>
    /\ ehist = NoCleanup

\* no URL extracted yet
NotExtracted == -1

Goroutines == 1..MaxGoroutines
PlayerIds == 1..MaxPlayers

\* the mutexes: Manager.mu, and for every player GuildPlayer.mu, its
\* Queue.mu and the mu of its encoder
ManagerMu == <<"m", 0>>
PlayerMu(p) == <<"p", p>>
QueueMu(p) == <<"q", p>>
EncoderMu(p) == <<"e", p>>
Mutexes == {ManagerMu} \cup {<<k, p>> : k \in {"p", "q", "e"}, p \in PlayerIds}

\* a goroutine that has not been started, and one that has returned
NoGo == [op |-> "none", pc |-> <<>>, p |-> 0, track |-> 0]
GoDone == [NoGo EXCEPT !.op = "done"]

\* the player GetPlayer makes for a guild that has none (part_002:344-350)
NewPlayer == [VoiceConnection |-> FALSE, Paused |-> FALSE, encoder |-> FALSE,
              done |-> FALSE, stop |-> FALSE, Tracks |-> <<>>,
              CurrentIndex |-> -1, spawned |-> 0]

\* the guild's player once /play has joined the voice channel and queued a
\* track: no goroutine is inside the manager or the player
LocksNew ==
    /\ holder = [mx \in Mutexes |-> 0]
    /\ readers = [mx \in Mutexes |-> {}]
    /\ gos = [g \in Goroutines |-> NoGo]
    /\ gp = [p \in PlayerIds |->
               IF p = 1 THEN [NewPlayer EXCEPT !.VoiceConnection = TRUE, !.Tracks = <<1>>]
               ELSE NewPlayer]
    /\ players = 1
    /\ nPlayers = 1

\* a yt-dlp result as decoded, before extractBestAudioURL runs (youtube.go:111)
FormatsNew == Formats = <<>> /\ streamURL = NotExtracted

\* encodeLoop before its first Read (part_003:166-172)
FramingNew == framing = [pc |-> "read", read |-> 0, frames |-> <<>>]

(***************************************************************************)
(* Volume state: Manager.GetPlayer (part_002:344-350) sets Volume to 100   *)
(* and leaves the reduce-on-voice fields at their zero values              *)
(***************************************************************************)
NoVolumeCall == [op |-> "New", arg |-> 0, ok |-> TRUE, pre |-> VolumeDefault,
                 reducing |-> FALSE]

VolumeNew ==
    /\ Volume = VolumeDefault
    /\ OriginalVolume = 0
    /\ ReduceOnVoice = FALSE
    /\ ReduceOnVoiceTarget = 0
    /\ vhist = [before |-> VolumeDefault, reducing |-> FALSE]
    /\ vlast = NoVolumeCall

(***************************************************************************)
(* Queue: internal/player/track.go                                         *)
(***************************************************************************)
\* the nil *Track
Nil == 0

TrackIds == 1..MaxTracks

SeqRange(s) == {s[i] : i \in 1..Len(s)}

\* NewQueue
NewQueueTracks == <<>>
NewQueueIndex == -1

\* Queue.Current: Go indices are 0-based, sequences here are 1-based
Current(tracks, idx) ==
    IF idx < 0 \/ idx >= Len(tracks) THEN Nil ELSE tracks[idx + 1]

\* a Next that advances whether or not the loop flag is set
NextIndexIgnoresLoop(tracks, idx, loop) ==
    IF Len(tracks) = 0 THEN -1
    ELSE IF idx + 1 >= Len(tracks) THEN -1
    ELSE idx + 1

\* Queue.Next: the cursor it leaves
NextIndex(tracks, idx, loop) ==
    IF Len(tracks) = 0 THEN -1
    ELSE IF loop /\ idx >= 0 /\ idx < Len(tracks) THEN idx
    ELSE IF idx + 1 >= Len(tracks) THEN -1
    ELSE idx + 1

\* Queue.Next: the track it returns
NextTrack(tracks, idx, loop) ==
    IF Len(tracks) = 0 THEN Nil
    ELSE IF loop /\ idx >= 0 /\ idx < Len(tracks) THEN tracks[idx + 1]
    ELSE IF idx + 1 >= Len(tracks) THEN Nil
    ELSE tracks[idx + 2]

\* Queue.Peek
Peek(tracks, idx) ==
    IF Len(tracks) = 0 THEN Nil
    ELSE IF idx + 1 >= Len(tracks) THEN Nil
    ELSE tracks[idx + 2]

\* Queue.Clear keeps only the current track
ClearTracks(tracks, idx) ==
    IF idx >= 0 /\ idx < Len(tracks) THEN <<tracks[idx + 1]>> ELSE <<>>

ClearIndex(tracks, idx) ==
    IF idx >= 0 /\ idx < Len(tracks) THEN 0 ELSE -1

\* a ClearAll that forgets to empty the list
ClearAllKeepsTracks(tracks) == tracks

\* Queue.ClearAll: q.Tracks = make([]*Track, 0)
ClearAllTracks(tracks) == <<>>

\* Queue.Remove / Queue.Move: the range check
ValidIndex(tracks, index) == index >= 0 /\ index < Len(tracks)

\* append(q.Tracks[:index], q.Tracks[index+1:]...)
RemoveAt(tracks, index) ==
    SubSeq(tracks, 1, index) \o SubSeq(tracks, index + 2, Len(tracks))

\* a cursor adjustment that only shifts for tracks strictly before the cursor
RemoveIndexStrict(idx, index) == IF idx > index THEN idx - 1 ELSE idx

\* a Remove that leaves the cursor where it was
RemoveIndexUnadjusted(idx, index) == idx

\* Queue.Remove: "if q.CurrentIndex >= index { q.CurrentIndex-- }"
RemoveIndex(idx, index) == IF idx >= index THEN idx - 1 ELSE idx

\* append(q.Tracks[:to], append([]*Track{track}, q.Tracks[to:]...)...)
InsertAt(tracks, to, t) ==
    SubSeq(tracks, 1, to) \o <<t>> \o SubSeq(tracks, to + 1, Len(tracks))

MoveTracks(tracks, from, to) ==
    InsertAt(RemoveAt(tracks, from), to, tracks[from + 1])

\* a cursor adjustment that forgets the shift when a later track moves in front
MoveIndexNoShiftUp(idx, from, to) ==
    IF idx = from THEN to
    ELSE IF from < idx /\ to >= idx THEN idx - 1
    ELSE idx

\* Queue.Move: the cursor adjustment
MoveIndex(idx, from, to) ==
    IF idx = from THEN to
    ELSE IF from < idx /\ to >= idx THEN idx - 1
    ELSE IF from > idx /\ to <= idx THEN idx + 1
    ELSE idx

\* what SpecQueue remembers about the last call
Call(op, a, b, ret) ==
    [op |-> op, a |-> a, b |-> b, ret |-> ret,
     preTracks |-> Tracks, preIndex |-> CurrentIndex, preLoop |-> Loop]

\* arguments handed to Remove and Move: every index in range and one out of
\* range on each side
IndexArgs == -1..MaxTracks

QueueAdd ==
    /\ Len(Tracks) < MaxTracks
    /\ \E t \in TrackIds \ SeqRange(Tracks) :
          /\ Tracks' = Append(Tracks, t)
          /\ qlast' = Call("Add", t, 0, TRUE)
    /\ UNCHANGED <<CurrentIndex, Loop>>
    /\ UNCHANGED nonQueue

QueueNext ==
    /\ CurrentIndex' = NextIndex(Tracks, CurrentIndex, Loop)
    /\ qlast' = Call("Next", 0, 0, NextTrack(Tracks, CurrentIndex, Loop))
    /\ UNCHANGED <<Tracks, Loop>>
    /\ UNCHANGED nonQueue

QueuePeek ==
    /\ qlast' = Call("Peek", 0, 0, Peek(Tracks, CurrentIndex))
    /\ UNCHANGED <<Tracks, CurrentIndex, Loop>>
    /\ UNCHANGED nonQueue

QueueClear ==
    /\ Tracks' = ClearTracks(Tracks, CurrentIndex)
    /\ CurrentIndex' = ClearIndex(Tracks, CurrentIndex)
    /\ qlast' = Call("Clear", 0, 0, TRUE)
    /\ UNCHANGED Loop
    /\ UNCHANGED nonQueue

QueueClearAll ==
    /\ Tracks' = ClearAllTracks(Tracks)
    /\ CurrentIndex' = -1
    /\ qlast' = Call("ClearAll", 0, 0, TRUE)
    /\ UNCHANGED Loop
    /\ UNCHANGED nonQueue

QueueRemove ==
    /\ UNCHANGED nonQueue
    /\ \E index \in IndexArgs :
        IF ValidIndex(Tracks, index)
        THEN /\ Tracks' = RemoveAt(Tracks, index)
             /\ CurrentIndex' = RemoveIndex(CurrentIndex, index)
             /\ qlast' = Call("Remove", index, 0, TRUE)
             /\ UNCHANGED Loop
        ELSE /\ qlast' = Call("Remove", index, 0, FALSE)
             /\ UNCHANGED <<Tracks, CurrentIndex, Loop>>

QueueMove ==
    /\ UNCHANGED nonQueue
    /\ \E from \in IndexArgs, to \in IndexArgs :
        IF ValidIndex(Tracks, from) /\ ValidIndex(Tracks, to)
        THEN /\ Tracks' = MoveTracks(Tracks, from, to)
             /\ CurrentIndex' = MoveIndex(CurrentIndex, from, to)
             /\ qlast' = Call("Move", from, to, TRUE)
             /\ UNCHANGED Loop
        ELSE /\ qlast' = Call("Move", from, to, FALSE)
             /\ UNCHANGED <<Tracks, CurrentIndex, Loop>>

\* handleLoop: p.Queue.Loop = !p.Queue.Loop
QueueToggleLoop ==
    /\ Loop' = ~Loop
    /\ qlast' = Call("Loop", 0, 0, TRUE)
    /\ UNCHANGED <<Tracks, CurrentIndex>>
    /\ UNCHANGED nonQueue

\* NewQueue
QueueNew ==
    /\ Tracks = NewQueueTracks
    /\ CurrentIndex = NewQueueIndex
    /\ Loop = FALSE
    /\ qlast = [op |-> "New", a |-> 0, b |-> 0, ret |-> TRUE,
                preTracks |-> <<>>, preIndex |-> -1, preLoop |-> FALSE]

\* the cache, where it plays no part
CacheUnused ==
    /\ entries = <<>> /\ files = <<>> /\ clock = 0 /\ goc = <<>>
    /\ clast = <<>>

InitQueue == QueueNew /\ CacheUnused /\ PlayerNew /\ EncoderNew /\ VolumeNew /\ FramingNew /\ FormatsNew /\ LocksNew

NextQueue ==
    \/ QueueAdd
    \/ QueueNext
    \/ QueuePeek
    \/ QueueClear
    \/ QueueClearAll
    \/ QueueRemove
    \/ QueueMove
    \/ QueueToggleLoop

SpecQueue == InitQueue /\ [][NextQueue]_vars

(***************************************************************************)
(* C9: after any sequence of Queue operations CurrentIndex is -1 or a      *)
(* valid index into Tracks, and Current() is nil exactly when              *)
(* CurrentIndex is -1.                                                     *)
(***************************************************************************)
C9_CursorValid ==
    /\ CurrentIndex = -1 \/ (0 <= CurrentIndex /\ CurrentIndex < Len(Tracks))
    /\ (Current(Tracks, CurrentIndex) = Nil) <=> (CurrentIndex = -1)

\* the current track was the last one and has just been removed
C9_Witness ==
    /\ qlast.op = "Remove" /\ qlast.ret
    /\ qlast.a = qlast.preIndex
    /\ qlast.preIndex = Len(qlast.preTracks) - 1
    /\ Len(Tracks) >= 1

(***************************************************************************)
(* C10: after Move(from, to) with from # to returned true on a queue with  *)
(* a current track, Current() is the track that was current before, the    *)
(* track list is a permutation of the old one, and the moved track is at   *)
(* index to.                                                               *)
(***************************************************************************)
C10_MoveKeepsCurrent ==
    (/\ qlast.op = "Move" /\ qlast.ret
     /\ qlast.a # qlast.b
     /\ Current(qlast.preTracks, qlast.preIndex) # Nil)
    => /\ Current(Tracks, CurrentIndex) = Current(qlast.preTracks, qlast.preIndex)
       /\ Len(Tracks) = Len(qlast.preTracks)
       /\ SeqRange(Tracks) = SeqRange(qlast.preTracks)
       /\ Tracks[qlast.b + 1] = qlast.preTracks[qlast.a + 1]

\* a track behind the cursor was moved in front of it
C10_Witness ==
    /\ qlast.op = "Move" /\ qlast.ret
    /\ qlast.preIndex >= 0
    /\ qlast.a > qlast.preIndex
    /\ qlast.b <= qlast.preIndex
    /\ CurrentIndex = qlast.preIndex + 1

(***************************************************************************)
(* C29: Remove(i) with a valid index i different from the cursor returns   *)
(* true, removes exactly the track at i and leaves the same track current: *)
(* CurrentIndex is one less when i was before the cursor and unchanged     *)
(* when i was behind it.  Remove with an index out of range returns false  *)
(* and changes neither the track list nor the cursor.                      *)
(***************************************************************************)
C29_RemoveKeepsCurrent ==
    qlast.op = "Remove"
    => LET pre == qlast.preTracks
           cur == qlast.preIndex
           i == qlast.a
       IN IF 0 <= i /\ i < Len(pre)
          THEN /\ qlast.ret
               /\ Len(Tracks) = Len(pre) - 1
               /\ \A k \in 1..Len(Tracks) :
                     Tracks[k] = IF k <= i THEN pre[k] ELSE pre[k + 1]
               /\ i # cur
                  => /\ Current(Tracks, CurrentIndex) = Current(pre, cur)
                     /\ i < cur => CurrentIndex = cur - 1
                     /\ i > cur => CurrentIndex = cur
          ELSE /\ ~qlast.ret
               /\ Tracks = pre
               /\ CurrentIndex = cur

\* a track in front of the current one was removed from a queue of three or
\* more, and the current track is still the current one
C29_Witness ==
    /\ qlast.op = "Remove" /\ qlast.ret
    /\ Len(qlast.preTracks) >= 3
    /\ qlast.a < qlast.preIndex
    /\ CurrentIndex = qlast.preIndex - 1
    /\ Current(Tracks, CurrentIndex) # Nil

(***************************************************************************)
(* C30: Next() with loop off moves the cursor to cursor+1 and returns the  *)
(* track there when there is one, and otherwise returns nil and resets the *)
(* cursor to -1; with loop on and a valid cursor it returns the current    *)
(* track and leaves the cursor where it is.  Peek() returns the track at   *)
(* cursor+1, or nil when there is none, and changes nothing.               *)
(***************************************************************************)
C30_NextAndPeek ==
    LET pre == qlast.preTracks
        cur == qlast.preIndex
        behind == cur + 1 < Len(pre)
    IN /\ (qlast.op = "Next" /\ ~qlast.preLoop)
          => /\ Tracks = pre
             /\ IF behind
                THEN CurrentIndex = cur + 1 /\ qlast.ret = pre[cur + 2]
                ELSE CurrentIndex = -1 /\ qlast.ret = Nil
       /\ (qlast.op = "Next" /\ qlast.preLoop /\ 0 <= cur /\ cur < Len(pre))
          => /\ Tracks = pre
             /\ CurrentIndex = cur
             /\ qlast.ret = pre[cur + 1]
       /\ qlast.op = "Peek"
          => /\ qlast.ret = (IF behind THEN pre[cur + 2] ELSE Nil)
             /\ Tracks = pre
             /\ CurrentIndex = cur
             /\ Loop = qlast.preLoop

\* Next() was called with loop on, a current track and a track behind it,
\* and stayed on the current track
C30_Witness ==
    /\ qlast.op = "Next" /\ qlast.preLoop
    /\ qlast.preIndex >= 0
    /\ qlast.preIndex + 1 < Len(qlast.preTracks)
    /\ CurrentIndex = qlast.preIndex
    /\ qlast.ret = Tracks[CurrentIndex + 1]

(***************************************************************************)
(* Cache: internal/cache (part_002:1-275)                                  *)
(*                                                                         *)
(* A path is filepath.Join(c.dir, key), so a file is named by its key.     *)
(* Each method body that runs under c.mu is one step; GetOrCreate is four  *)
(* steps (Get, create, os.Stat, registration) that other calls interleave  *)
(* with.                                                                   *)
(***************************************************************************)
Keys == 1..MaxKeys
Sizes == 1..MaxFileSize
Callers == 1..MaxCallers

Restrict(f, gone) == [k \in DOMAIN f \ gone |-> f[k]]
Put(f, k, v) == [x \in DOMAIN f \cup {k} |-> IF x = k THEN v ELSE f[x]]

RECURSIVE SumSizes(_, _)
SumSizes(ents, ks) ==
    IF ks = {} THEN 0
    ELSE LET k == CHOOSE x \in ks : TRUE
         IN ents[k].Size + SumSizes(ents, ks \ {k})

\* Cache.getCurrentSize
getCurrentSize(ents) == SumSizes(ents, DOMAIN ents)

\* a sort that puts the most recently accessed entries first
SortedOrdersNewestFirst(ents) ==
    LET n == Cardinality(DOMAIN ents)
    IN {o \in [1..n -> DOMAIN ents] :
          /\ \A i, j \in 1..n : i # j => o[i] # o[j]
          /\ \A i, j \in 1..n :
                i < j => ents[o[i]].LastAccessed >= ents[o[j]].LastAccessed}

\* the orders evict's exchange sort can leave the entries in: ascending
\* LastAccessed, entries with equal times in any order (map iteration order)
SortedOrders(ents) ==
    LET n == Cardinality(DOMAIN ents)
    IN {o \in [1..n -> DOMAIN ents] :
          /\ \A i, j \in 1..n : i # j => o[i] # o[j]
          /\ \A i, j \in 1..n :
                i < j => ents[o[i]].LastAccessed <= ents[o[j]].LastAccessed}

\* Cache.evict, the loop over the sorted entries: the keys it deletes
RECURSIVE evictLoop(_, _, _, _, _)
evictLoop(order, ents, i, freedSize, targetSize) ==
    IF i > Len(order) \/ freedSize >= targetSize THEN {}
    ELSE {order[i]} \cup
         evictLoop(order, ents, i + 1, freedSize + ents[order[i]].Size, targetSize)

\* Cache.evict: the sets of keys one call may delete
evict(ents, targetSize) ==
    {evictLoop(o, ents, 1, 0, targetSize) : o \in SortedOrders(ents)}

\* "if currentSize+size > c.maxSize { c.evict(currentSize + size - c.maxSize) }"
makeRoom(ents, size) ==
    IF getCurrentSize(ents) + size > CacheMaxSize
    THEN evict(ents, getCurrentSize(ents) + size - CacheMaxSize)
    ELSE {{}}

\* Cache.loadEntries: one entry per file of the directory
loadEntries(disk) ==
    [k \in DOMAIN disk |-> [Size |-> disk[k].size, LastAccessed |-> disk[k].mtime]]

\* the directories NewCache may find
InitDisks ==
    UNION {[ks -> [size : Sizes, mtime : 0..MaxInitTime]] : ks \in SUBSET Keys}

IdleCall == [pc |-> "idle", key |-> 0, size |-> 0, ret |-> 0]

\* a GetOrCreate result: the path (key) returned, or Failed for an error
Failed == -1

Done(op, key, ok, gone) == [op |-> op, key |-> key, ok |-> ok, evicted |-> gone]

\* NewCache: loadEntries, then evict when the directory is over the limit
CacheNew ==
    \E disk \in InitDisks :
       LET loaded == loadEntries(disk)
           total == getCurrentSize(loaded)
       IN \E gone \in (IF total > CacheMaxSize
                       THEN evict(loaded, total - CacheMaxSize) ELSE {{}}) :
             /\ entries = Restrict(loaded, gone)
             /\ files = [k \in DOMAIN disk \ gone |-> disk[k].size]
             /\ clock = MaxInitTime + 1
             /\ goc = [c \in Callers |-> IdleCall]
             /\ clast = Done("New", 0, TRUE, gone)

InitCache == CacheNew /\ QueueNew /\ PlayerNew /\ EncoderNew /\ VolumeNew /\ FramingNew /\ FormatsNew /\ LocksNew

\* Cache.Get: the entries it leaves
GetEntries(k) ==
    IF k \notin DOMAIN entries THEN entries
    ELSE IF k \in DOMAIN files
         THEN Put(entries, k, [entries[k] EXCEPT !.LastAccessed = clock])
         ELSE Restrict(entries, {k})

\* Cache.Get: whether it reports a hit
GetHit(k) == k \in DOMAIN entries /\ k \in DOMAIN files

\* Cache.Get reads time.Now() once it found the entry
GetClock(k) == IF k \in DOMAIN entries THEN clock + 1 ELSE clock

\* Cache.Get called on its own (the play loop's lookup)
CacheGet ==
    /\ \E k \in Keys :
          /\ GetClock(k) <= MaxClock + 1
          /\ entries' = GetEntries(k)
          /\ clock' = GetClock(k)
          /\ clast' = Done("Get", k, GetHit(k), {})
    /\ UNCHANGED <<files, goc>>
    /\ UNCHANGED nonCache

\* Cache.Set; copyFile fails when the source cannot be opened
CacheSet ==
    /\ clock <= MaxClock
    /\ \E k \in Keys, size \in Sizes, copied \in BOOLEAN :
          \E gone \in makeRoom(entries, size) :
             IF copied
             THEN /\ entries' = Put(Restrict(entries, gone), k,
                                    [Size |-> size, LastAccessed |-> clock])
                  /\ files' = Put(Restrict(files, gone), k, size)
                  /\ clock' = clock + 1
                  /\ clast' = Done("Set", k, TRUE, gone)
             ELSE /\ entries' = Restrict(entries, gone)
                  /\ files' = Restrict(files, gone)
                  /\ clock' = clock
                  /\ clast' = Done("Set", k, FALSE, gone)
    /\ UNCHANGED goc
    /\ UNCHANGED nonCache

\* Cache.Clear
CacheClear ==
    /\ entries' = Restrict(entries, DOMAIN entries)
    /\ files' = Restrict(files, DOMAIN entries)
    /\ clast' = Done("Clear", 0, TRUE, DOMAIN entries)
    /\ UNCHANGED <<clock, goc>>
    /\ UNCHANGED nonCache

\* GetOrCreate, part_002:138-142: the Get that opens the call
GetOrCreateGet(c) ==
    /\ goc[c].pc = "idle"
    /\ \E k \in Keys :
          /\ GetClock(k) <= MaxClock + 1
          /\ entries' = GetEntries(k)
          /\ clock' = GetClock(k)
          /\ IF GetHit(k)
             THEN /\ goc' = [goc EXCEPT ![c] = [IdleCall EXCEPT !.key = k, !.ret = k]]
                  /\ clast' = Done("GetOrCreate", k, TRUE, {})
             ELSE /\ goc' = [goc EXCEPT ![c] = [IdleCall EXCEPT !.pc = "create", !.key = k]]
                  /\ clast' = clast
    /\ UNCHANGED files
    /\ UNCHANGED nonCache

\* GetOrCreate, part_002:146-148: create(destPath) runs without the lock. It
\* writes the file, or fails and leaves nothing or a partial file behind.
GetOrCreateCreate(c) ==
    /\ goc[c].pc = "create"
    /\ LET k == goc[c].key
       IN \/ \E size \in Sizes :
               /\ files' = Put(files, k, size)
               /\ goc' = [goc EXCEPT ![c].pc = "stat"]
               /\ clast' = clast
          \/ \E partial \in BOOLEAN :
               /\ files' = IF partial THEN Put(files, k, 1) ELSE files
               /\ goc' = [goc EXCEPT ![c] = [IdleCall EXCEPT !.key = k, !.ret = Failed]]
               /\ clast' = Done("GetOrCreate", k, FALSE, {})
    /\ UNCHANGED <<entries, clock>>
    /\ UNCHANGED nonCache

\* GetOrCreate, part_002:151-157: os.Stat(destPath)
GetOrCreateStat(c) ==
    /\ goc[c].pc = "stat"
    /\ LET k == goc[c].key
       IN IF k \in DOMAIN files
          THEN /\ goc' = [goc EXCEPT ![c].pc = "register", ![c].size = files[k]]
               /\ clast' = clast
          ELSE /\ goc' = [goc EXCEPT ![c] = [IdleCall EXCEPT !.key = k, !.ret = Failed]]
               /\ clast' = Done("GetOrCreate", k, FALSE, {})
    /\ UNCHANGED <<entries, files, clock>>
    /\ UNCHANGED nonCache

\* GetOrCreate, part_002:160-182: registration under c.mu
GetOrCreateRegister(c) ==
    /\ goc[c].pc = "register"
    /\ LET k == goc[c].key
           size == goc[c].size
       IN IF k \in DOMAIN entries
          THEN \* "Remove our duplicate download": os.Remove(destPath)
               /\ files' = Restrict(files, {k})
               /\ goc' = [goc EXCEPT ![c] = [IdleCall EXCEPT !.key = k, !.ret = k]]
               /\ clast' = Done("GetOrCreate", k, TRUE, {})
               /\ UNCHANGED <<entries, clock>>
          ELSE /\ clock <= MaxClock
               /\ \E gone \in makeRoom(entries, size) :
                     /\ entries' = Put(Restrict(entries, gone), k,
                                       [Size |-> size, LastAccessed |-> clock])
                     /\ files' = Restrict(files, gone)
                     /\ clast' = Done("GetOrCreate", k, TRUE, gone)
               /\ clock' = clock + 1
               /\ goc' = [goc EXCEPT ![c] = [IdleCall EXCEPT !.key = k, !.ret = k]]
    /\ UNCHANGED nonCache

NextCache ==
    \/ CacheGet
    \/ CacheSet
    \/ CacheClear
    \/ \E c \in Callers : GetOrCreateGet(c)
    \/ \E c \in Callers : GetOrCreateCreate(c)
    \/ \E c \in Callers : GetOrCreateStat(c)
    \/ \E c \in Callers : GetOrCreateRegister(c)

SpecCache == InitCache /\ [][NextCache]_vars

\* the calls that are between their create and their return
Producing(c) == goc[c].pc \in {"stat", "register"}

\* no cache call is in progress
CacheQuiet == \A c \in Callers : goc[c].pc = "idle"

(***************************************************************************)
(* C3: of two overlapping GetOrCreate calls on one key with a cold cache,  *)
(* at most one invokes create.                                             *)
(***************************************************************************)
C3_CreateInvokedOnce ==
    \A c, d \in Callers :
        (c # d /\ Producing(c) /\ Producing(d)) => goc[c].key # goc[d].key

(***************************************************************************)
(* C4: once every call has returned, each registered key has its file at   *)
(* the recorded path.                                                      *)
(***************************************************************************)
C4_RegisteredFilePresent ==
    CacheQuiet => \A k \in DOMAIN entries : k \in DOMAIN files

(***************************************************************************)
(* C5: after NewCache, Set, GetOrCreate or Clear returned, the sizes of    *)
(* the registered entries sum to at most maxSize.                          *)
(***************************************************************************)
C5_TotalWithinLimit ==
    clast.op \in {"New", "Set", "GetOrCreate", "Clear"}
        => getCurrentSize(entries) <= CacheMaxSize

(***************************************************************************)
(* GuildPlayer: internal/player (part_002:277-691)                         *)
(*                                                                         *)
(* Each section of code that runs under p.mu is one step.  A goroutine     *)
(* started with "go" takes its steps on its own.  An encoder is named by   *)
(* the playTrack goroutine that built it.                                  *)
(***************************************************************************)
Alive(i) == pumps[i].pc \notin {"none", "exited"}

LoopAlive(l) == loops[l].pc \notin {"none", "done"}

\* IsLive of a resolved track: every second track is a live stream
IsLive(t) == t % 2 = 0

\* Duration of a resolved track
Duration(t) == MaxDuration

\* positions a seek command may pass: negative, start, full duration, beyond
SeekPositions == {-1, 0, MaxDuration, MaxDuration + 1}

\* p.mu is held by the goroutine that is inside VoiceConnection.Disconnect:
\* GuildPlayer.Disconnect locks it with a deferred unlock (part_002:660-661)
muHeld ==
    \/ \E c \in Cmds : cmds[c].pc = "discCall"
    \/ \E l \in Loops : loops[l].pc = "exitCall"

\* p.mu.Lock() and p.mu.RLock() return only when no goroutine holds p.mu
muFree == ~muHeld

\* EncoderInterface.Cleanup on encoder e (part_003:251-274): a second call
\* changes nothing; the first stops the encode loop, whose frame channel is
\* closed with whatever frames it still buffers
Cleanup(ps, e) ==
    IF e = 0 \/ ps[e].cleaned THEN {ps}
    ELSE {[ps EXCEPT ![e].cleaned = TRUE, ![e].left = n] : n \in 0..ps[e].left}

\* Stop: "select { case p.stopChan <- true: default: }"
StopSignal(ch, n) == IF ch = <<>> THEN <<n>> ELSE ch

\* GuildPlayer.Stop (part_002:556-575)
Stop ==
    /\ Playing' = FALSE
    /\ Paused' = FALSE
    /\ CurrentPosition' = 0
    /\ stopChan' = StopSignal(stopChan, nPumps)
    /\ \E ps \in Cleanup(pumps, encoder) : pumps' = ps
    /\ encoder' = 0
    /\ UNCHANGED <<VoiceConnection, nJoins, speaking, LoopRunning, doneChan, nPumps>>

\* "go p.playTrack(track)": the pumps with one more goroutine
StartPump(track) ==
    [pumps EXCEPT ![nPumps + 1] = [NoPump EXCEPT !.pc = "start", !.track = track]]

\* playTrack i returns: its locals are gone
Return(ps, i) ==
    [ps EXCEPT ![i].pc = "exited", ![i].track = 0, ![i].vc = 0, ![i].left = 0,
               ![i].held = FALSE, ![i].count = 0, ![i].seek = -1]

\* --------------------------------------------------------------------
\* playTrack (part_002:406-524)
\* --------------------------------------------------------------------
\* part_002:409-416: no voice connection, return
PumpStart(i) ==
    /\ pumps[i].pc = "start"
    /\ muFree
    /\ pumps' = IF VoiceConnection = 0
                THEN Return(pumps, i)
                ELSE [pumps EXCEPT ![i].pc = "encode", ![i].vc = VoiceConnection]
    /\ UNCHANGED <<VoiceConnection, nJoins, speaking, Playing, Paused, LoopRunning,
                   CurrentPosition, stopChan, doneChan, encoder, nPumps,
                   loops, nLoops, plays, cmds, nQueued, reported, skipWait>>
    /\ UNCHANGED qvars
    /\ UNCHANGED nonPlayer

\* part_002:418-441: NewCustomEncoder / NewStreamingEncoder succeeds or fails
PumpEncode(i) ==
    /\ pumps[i].pc = "encode"
    /\ \E ok \in BOOLEAN :
          IF ok
          THEN /\ pumps' = [pumps EXCEPT ![i].pc = "setenc", ![i].left = MaxFrames]
               /\ Playing' = Playing
          ELSE /\ muFree
               /\ pumps' = Return([pumps EXCEPT ![i].failed = TRUE], i)
               /\ Playing' = FALSE
    /\ UNCHANGED <<VoiceConnection, nJoins, speaking, Paused, LoopRunning,
                   CurrentPosition, stopChan, doneChan, encoder, nPumps,
                   loops, nLoops, plays, cmds, nQueued, reported, skipWait>>
    /\ UNCHANGED qvars
    /\ UNCHANGED nonPlayer

\* part_002:443-445: p.encoder = encoder
PumpSetEncoder(i) ==
    /\ pumps[i].pc = "setenc"
    /\ muFree
    /\ encoder' = i
    /\ pumps' = [pumps EXCEPT ![i].pc = "speak"]
    /\ UNCHANGED <<VoiceConnection, nJoins, speaking, Playing, Paused, LoopRunning,
                   CurrentPosition, stopChan, doneChan, nPumps,
                   loops, nLoops, plays, cmds, nQueued, reported, skipWait>>
    /\ UNCHANGED qvars
    /\ UNCHANGED nonPlayer

\* part_002:447-455: vc.Speaking(true)
PumpSpeaking(i) ==
    /\ pumps[i].pc = "speak"
    /\ speaking' = TRUE
    /\ pumps' = [pumps EXCEPT ![i].pc = "pause"]
    /\ UNCHANGED <<VoiceConnection, nJoins, Playing, Paused, LoopRunning,
                   CurrentPosition, stopChan, doneChan, encoder, nPumps,
                   loops, nLoops, plays, cmds, nQueued, reported, skipWait>>
    /\ UNCHANGED qvars
    /\ UNCHANGED nonPlayer

SleepDropsFrame(p) == [p EXCEPT !.held = TRUE, !.left = IF @ > 0 THEN @ - 1 ELSE @]

\* part_002:467-470: paused, the pump sleeps and goes round again with what
\* it has
Sleep(p) == [p EXCEPT !.held = TRUE]

\* part_002:462-470: while paused the pump sleeps and looks again
PumpPauseCheck(i) ==
    /\ pumps[i].pc = "pause"
    /\ muFree
    /\ pumps' = IF Paused
                THEN [pumps EXCEPT ![i] = Sleep(@)]
                ELSE [pumps EXCEPT ![i].pc = "stopchk"]
    /\ UNCHANGED <<VoiceConnection, nJoins, speaking, Playing, Paused, LoopRunning,
                   CurrentPosition, stopChan, doneChan, encoder, nPumps,
                   loops, nLoops, plays, cmds, nQueued, reported, skipWait>>
    /\ UNCHANGED qvars
    /\ UNCHANGED nonPlayer

\* a stop path that returns without vc.Speaking(false)
TakeStopStillSpeaking(i) ==
    /\ stopChan # <<>>
    /\ stopChan' = <<>>
    /\ speaking' = speaking
    /\ pumps' = Return([pumps EXCEPT ![i].stale = (stopChan[1] < i)], i)

\* the pump takes the token off stopChan, clears speaking and returns
TakeStop(i) ==
    /\ stopChan # <<>>
    /\ stopChan' = <<>>
    /\ speaking' = FALSE
    /\ pumps' = Return([pumps EXCEPT ![i].stale = (stopChan[1] < i)], i)

\* part_002:472-479: the non-blocking look at stopChan
PumpStopCheck(i) ==
    /\ pumps[i].pc = "stopchk"
    /\ IF stopChan # <<>>
       THEN TakeStop(i)
       ELSE /\ pumps' = [pumps EXCEPT ![i].pc = "frame"]
            /\ UNCHANGED <<stopChan, speaking>>
    /\ UNCHANGED <<VoiceConnection, nJoins, Playing, Paused, LoopRunning,
                   CurrentPosition, doneChan, encoder, nPumps,
                   loops, nLoops, plays, cmds, nQueued, reported, skipWait>>
    /\ UNCHANGED qvars
    /\ UNCHANGED nonPlayer

\* part_002:481-490: encoder.OpusFrame() hands over a frame or io.EOF
PumpOpusFrame(i) ==
    /\ pumps[i].pc = "frame"
    /\ pumps' = IF pumps[i].left > 0
                THEN [pumps EXCEPT ![i].pc = "send", ![i].left = @ - 1]
                ELSE [pumps EXCEPT ![i].pc = "finish"]
    /\ UNCHANGED <<VoiceConnection, nJoins, speaking, Playing, Paused, LoopRunning,
                   CurrentPosition, stopChan, doneChan, encoder, nPumps,
                   loops, nLoops, plays, cmds, nQueued, reported, skipWait>>
    /\ UNCHANGED qvars
    /\ UNCHANGED nonPlayer

\* part_002:492-503: select between the send on vc.OpusSend and stopChan.
\* The connection takes frames only while it is the one the player holds.
PumpSend(i) ==
    /\ pumps[i].pc = "send"
    /\ \/ /\ pumps[i].vc = VoiceConnection
          /\ pumps' = [pumps EXCEPT ![i].pc = "pause", ![i].sent = TRUE,
                                    ![i].count = @ + 1]
          /\ UNCHANGED <<stopChan, speaking>>
       \/ TakeStop(i)
    /\ UNCHANGED <<VoiceConnection, nJoins, Playing, Paused, LoopRunning,
                   CurrentPosition, doneChan, encoder, nPumps,
                   loops, nLoops, plays, cmds, nQueued, reported, skipWait>>
    /\ UNCHANGED qvars
    /\ UNCHANGED nonPlayer

\* part_002:506-508: end of stream, vc.Speaking(false)
PumpSpeakingStop(i) ==
    /\ pumps[i].pc = "finish"
    /\ speaking' = FALSE
    /\ pumps' = [pumps EXCEPT ![i].pc = "cleanup"]
    /\ UNCHANGED <<VoiceConnection, nJoins, Playing, Paused, LoopRunning,
                   CurrentPosition, stopChan, doneChan, encoder, nPumps,
                   loops, nLoops, plays, cmds, nQueued, reported, skipWait,
                   Tracks, CurrentIndex, Loop>>
    /\ UNCHANGED nonPlayer

\* part_002:510-523: clean up whatever p.encoder holds, signal completion
PumpFinish(i) ==
    /\ pumps[i].pc = "cleanup"
    /\ muFree
    /\ \E ps \in Cleanup(pumps, encoder) : pumps' = Return(ps, i)
    /\ encoder' = 0
    /\ Playing' = FALSE
    /\ doneChan' = <<TRUE>>
    /\ UNCHANGED <<VoiceConnection, nJoins, speaking, Paused, LoopRunning,
                   CurrentPosition, stopChan, nPumps, loops, nLoops, plays,
                   cmds, nQueued, reported, skipWait, Tracks, CurrentIndex,
                   Loop>>
    /\ UNCHANGED nonPlayer

\* --------------------------------------------------------------------
\* GuildPlayer.Play (part_002:368-403), called by playLoop l.  errPc is where
\* the loop goes when Play returns an error.
\* --------------------------------------------------------------------
Play(l, errPc) ==
    LET cur == Current(Tracks, CurrentIndex)
        track == IF cur = Nil THEN NextTrack(Tracks, CurrentIndex, Loop) ELSE cur
        idx == IF cur = Nil THEN NextIndex(Tracks, CurrentIndex, Loop) ELSE CurrentIndex
        n == loops[l].attempts + 1
    IN IF VoiceConnection = 0
       THEN \* "not connected to voice channel"
            /\ loops' = [loops EXCEPT ![l].pc = errPc, ![l].attempts = n]
            /\ UNCHANGED <<Playing, Paused, doneChan, pumps, nPumps, CurrentIndex>>
       ELSE IF Paused
       THEN \* a paused player is resumed and no playTrack is started
            /\ Paused' = FALSE
            /\ Playing' = TRUE
            /\ loops' = [loops EXCEPT ![l].pc = "wait", ![l].attempts = n]
            /\ UNCHANGED <<doneChan, pumps, nPumps, CurrentIndex>>
       ELSE IF track = Nil
       THEN \* "no tracks in queue"
            /\ CurrentIndex' = idx
            /\ loops' = [loops EXCEPT ![l].pc = errPc, ![l].attempts = n]
            /\ UNCHANGED <<Playing, Paused, doneChan, pumps, nPumps>>
       ELSE /\ nPumps < MaxPumps
            /\ CurrentIndex' = idx
            /\ Playing' = TRUE
            /\ Paused' = FALSE
            /\ doneChan' = <<>>
            /\ pumps' = StartPump(track)
            /\ nPumps' = nPumps + 1
            /\ loops' = [loops EXCEPT ![l].pc = "wait", ![l].attempts = n,
                                      ![l].pump = nPumps + 1]

\* IsVoiceConnected, called by playLoop (commands.go:556)
IsVoiceConnected == VoiceConnection # 0

\* --------------------------------------------------------------------
\* playLoop (commands.go:472-578)
\* --------------------------------------------------------------------
\* commands.go:482-483: track := p.Queue.Current()
LoopCurrent(l) ==
    /\ loops[l].pc = "current"
    /\ LET track == Current(Tracks, CurrentIndex)
       IN loops' = [loops EXCEPT ![l] = [NoLoop EXCEPT
                       !.pc = IF track = Nil THEN "next" ELSE "play",
                       !.track = track,
                       !.again = loops[l].again]]
    /\ UNCHANGED <<VoiceConnection, nJoins, speaking, Playing, Paused,
                   LoopRunning, CurrentPosition, stopChan, doneChan, encoder,
                   pumps, nPumps, nLoops, plays, cmds, nQueued, reported,
                   skipWait, Tracks, CurrentIndex, Loop>>
    /\ UNCHANGED nonPlayer

\* commands.go:484-485: track = p.Queue.Next()
LoopNext(l) ==
    /\ loops[l].pc = "next"
    /\ CurrentIndex' = NextIndex(Tracks, CurrentIndex, Loop)
    /\ LET track == NextTrack(Tracks, CurrentIndex, Loop)
       IN loops' = [loops EXCEPT ![l].pc = IF track = Nil THEN "exitClear" ELSE "play",
                                 ![l].track = track]
    /\ UNCHANGED <<VoiceConnection, nJoins, speaking, Playing, Paused,
                   LoopRunning, CurrentPosition, stopChan, doneChan, encoder,
                   pumps, nPumps, nLoops, plays, cmds, nQueued, reported,
                   skipWait, Tracks, Loop>>
    /\ UNCHANGED nonPlayer

\* commands.go:527: err := p.Play()
LoopPlay(l) ==
    /\ loops[l].pc = "play"
    /\ muFree
    /\ Play(l, "retry")
    /\ UNCHANGED <<VoiceConnection, nJoins, speaking, LoopRunning,
                   CurrentPosition, stopChan, encoder, nLoops, plays, cmds,
                   nQueued, reported, skipWait, Tracks, Loop>>
    /\ UNCHANGED nonPlayer

\* commands.go:529-536: track.StreamURL = ""; err = p.Play()
LoopRetry(l) ==
    /\ loops[l].pc = "retry"
    /\ muFree
    /\ Play(l, "fail")
    /\ UNCHANGED <<VoiceConnection, nJoins, speaking, LoopRunning,
                   CurrentPosition, stopChan, encoder, nLoops, plays, cmds,
                   nQueued, reported, skipWait, Tracks, Loop>>
    /\ UNCHANGED nonPlayer

\* commands.go:537-545: the failure message, p.Queue.Next(), continue
LoopFail(l) ==
    /\ loops[l].pc = "fail"
    /\ reported' = reported \cup {loops[l].track}
    /\ CurrentIndex' = NextIndex(Tracks, CurrentIndex, Loop)
    /\ loops' = [loops EXCEPT ![l].pc = "current"]
    /\ UNCHANGED <<VoiceConnection, nJoins, speaking, Playing, Paused,
                   LoopRunning, CurrentPosition, stopChan, doneChan, encoder,
                   pumps, nPumps, nLoops, plays, cmds, nQueued, skipWait,
                   Tracks, Loop>>
    /\ UNCHANGED nonPlayer

\* what a wait that ends tells about an earlier skip
WaitEnds(l, cause) ==
    IF skipWait.st = "armed" /\ skipWait.loop = l
    THEN [skipWait EXCEPT !.st = cause]
    ELSE skipWait

\* WaitForCompletion (part_002:527-533): a token arrives on doneChan
LoopWaitDone(l) ==
    /\ loops[l].pc = "wait"
    /\ doneChan # <<>>
    /\ doneChan' = <<>>
    /\ loops' = [loops EXCEPT ![l].pc = "after"]
    /\ skipWait' = WaitEnds(l, "done")
    /\ UNCHANGED <<VoiceConnection, nJoins, speaking, Playing, Paused,
                   LoopRunning, CurrentPosition, stopChan, encoder, pumps,
                   nPumps, nLoops, plays, cmds, nQueued, reported, Tracks,
                   CurrentIndex, Loop>>
    /\ UNCHANGED nonPlayer

\* nothing is left that could still signal completion: no playTrack runs
\* and no handler is between two of its steps
Quiescent ==
    /\ \A i \in Pumps : ~Alive(i)
    /\ \A h \in PlayCalls : plays[h] \in {"new", "done"}
    /\ \A c \in Cmds : cmds[c].pc \in {"new", "done"}

\* WaitForCompletion: time.After(3 * time.Hour) fires.  Tracks and pauses are shorter
\* than that, so the timer wins only when no completion can come any more.
LoopWaitTimeout(l) ==
    /\ loops[l].pc = "wait"
    /\ doneChan = <<>>
    /\ Quiescent
    /\ loops' = [loops EXCEPT ![l].pc = "after"]
    /\ skipWait' = WaitEnds(l, "timeout")
    /\ UNCHANGED <<VoiceConnection, nJoins, speaking, Playing, Paused,
                   LoopRunning, CurrentPosition, stopChan, doneChan, encoder,
                   pumps, nPumps, nLoops, plays, cmds, nQueued, reported,
                   Tracks, CurrentIndex, Loop>>
    /\ UNCHANGED nonPlayer

\* a play loop that never replays
AfterWaitAdvances(loop, connected) == "peek"

\* commands.go:553-564: where the loop goes after WaitForCompletion
AfterWait(loop, connected) ==
    IF loop THEN (IF connected THEN "current" ELSE "lostClear") ELSE "peek"

\* commands.go:553-564: the loop flag and the voice connection check; again
\* remembers the track that is to be replayed
LoopAfter(l) ==
    /\ loops[l].pc = "after"
    /\ loops' = [loops EXCEPT
                    ![l].pc = AfterWait(Loop, IsVoiceConnected),
                    ![l].again = IF Loop /\ IsVoiceConnected THEN loops[l].track ELSE 0]
    /\ UNCHANGED <<VoiceConnection, nJoins, speaking, Playing, Paused,
                   LoopRunning, CurrentPosition, stopChan, doneChan, encoder,
                   pumps, nPumps, nLoops, plays, cmds, nQueued, reported,
                   skipWait, Tracks, CurrentIndex, Loop>>
    /\ UNCHANGED nonPlayer

\* commands.go:558: p.Queue.ClearAll() when the voice connection was lost
LoopLostClear(l) ==
    /\ loops[l].pc = "lostClear"
    /\ Tracks' = ClearAllTracks(Tracks)
    /\ CurrentIndex' = -1
    /\ loops' = [loops EXCEPT ![l].pc = "lostSetLoop"]
    /\ UNCHANGED <<VoiceConnection, nJoins, speaking, Playing, Paused,
                   LoopRunning, CurrentPosition, stopChan, doneChan, encoder,
                   pumps, nPumps, nLoops, plays, cmds, nQueued, reported,
                   skipWait, Loop>>
    /\ UNCHANGED nonPlayer

\* commands.go:559-560: p.SetLoopRunning(false); return
LoopLostSetLoop(l) ==
    /\ loops[l].pc = "lostSetLoop"
    /\ muFree
    /\ LoopRunning' = FALSE
    /\ loops' = [loops EXCEPT ![l] = [NoLoop EXCEPT !.pc = "done"]]
    /\ UNCHANGED <<VoiceConnection, nJoins, speaking, Playing, Paused,
                   CurrentPosition, stopChan, doneChan, encoder, pumps,
                   nPumps, nLoops, plays, cmds, nQueued, reported, skipWait,
                   Tracks, CurrentIndex, Loop>>
    /\ UNCHANGED nonPlayer

\* commands.go:567: p.Queue.Peek() == nil
LoopPeek(l) ==
    /\ loops[l].pc = "peek"
    /\ loops' = [loops EXCEPT ![l].pc =
                    IF Peek(Tracks, CurrentIndex) = Nil THEN "exitClear" ELSE "advance"]
    /\ UNCHANGED <<VoiceConnection, nJoins, speaking, Playing, Paused,
                   LoopRunning, CurrentPosition, stopChan, doneChan, encoder,
                   pumps, nPumps, nLoops, plays, cmds, nQueued, reported,
                   skipWait, Tracks, CurrentIndex, Loop>>
    /\ UNCHANGED nonPlayer

\* commands.go:576: p.Queue.Next()
LoopAdvance(l) ==
    /\ loops[l].pc = "advance"
    /\ CurrentIndex' = NextIndex(Tracks, CurrentIndex, Loop)
    /\ loops' = [loops EXCEPT ![l].pc = "current"]
    /\ UNCHANGED <<VoiceConnection, nJoins, speaking, Playing, Paused,
                   LoopRunning, CurrentPosition, stopChan, doneChan, encoder,
                   pumps, nPumps, nLoops, plays, cmds, nQueued, reported,
                   skipWait, Tracks, Loop>>
    /\ UNCHANGED nonPlayer

\* commands.go:491 and 569: p.Queue.ClearAll()
LoopExitClear(l) ==
    /\ loops[l].pc = "exitClear"
    /\ Tracks' = ClearAllTracks(Tracks)
    /\ CurrentIndex' = -1
    /\ loops' = [loops EXCEPT ![l].pc = "exitSetLoop"]
    /\ UNCHANGED <<VoiceConnection, nJoins, speaking, Playing, Paused,
                   LoopRunning, CurrentPosition, stopChan, doneChan, encoder,
                   pumps, nPumps, nLoops, plays, cmds, nQueued, reported,
                   skipWait, Loop>>
    /\ UNCHANGED nonPlayer

\* commands.go:492 and 570: p.SetLoopRunning(false)
LoopExitSetLoop(l) ==
    /\ loops[l].pc = "exitSetLoop"
    /\ muFree
    /\ LoopRunning' = FALSE
    /\ loops' = [loops EXCEPT ![l].pc = "exitStop"]
    /\ UNCHANGED <<VoiceConnection, nJoins, speaking, Playing, Paused,
                   CurrentPosition, stopChan, doneChan, encoder, pumps,
                   nPumps, nLoops, plays, cmds, nQueued, reported, skipWait,
                   Tracks, CurrentIndex, Loop>>
    /\ UNCHANGED nonPlayer

\* commands.go:493 and 571: p.Disconnect(), its p.Stop()
LoopExitStop(l) ==
    /\ loops[l].pc = "exitStop"
    /\ muFree
    /\ Stop
    /\ loops' = [loops EXCEPT ![l].pc = "exitDisc"]
    /\ UNCHANGED <<nLoops, plays, cmds, nQueued, reported, skipWait>>
    /\ UNCHANGED qvars
    /\ UNCHANGED nonPlayer

\* p.Disconnect() (part_002:660-664): p.mu.Lock() and, with a connection,
\* the call of VoiceConnection.Disconnect; with none Disconnect and playLoop
\* return
LoopExitCall(l) ==
    /\ loops[l].pc = "exitDisc"
    /\ muFree
    /\ loops' = IF VoiceConnection # 0
                THEN [loops EXCEPT ![l].pc = "exitCall"]
                ELSE [loops EXCEPT ![l] = [NoLoop EXCEPT !.pc = "done"]]
    /\ UNCHANGED <<VoiceConnection, nJoins, speaking, Playing, Paused,
                   LoopRunning, CurrentPosition, stopChan, doneChan, encoder,
                   pumps, nPumps, nLoops, plays, cmds, nQueued, reported,
                   skipWait, Tracks, CurrentIndex, Loop>>
    /\ UNCHANGED nonPlayer

\* p.Disconnect() (part_002:664-666): VoiceConnection.Disconnect returns,
\* p.VoiceConnection = nil, the deferred unlock; then playLoop returns
LoopExitDisconnect(l) ==
    /\ loops[l].pc = "exitCall"
    /\ VoiceConnection' = 0
    /\ loops' = [loops EXCEPT ![l] = [NoLoop EXCEPT !.pc = "done"]]
    /\ UNCHANGED <<nJoins, speaking, Playing, Paused, LoopRunning,
                   CurrentPosition, stopChan, doneChan, encoder, pumps,
                   nPumps, nLoops, plays, cmds, nQueued, reported, skipWait,
                   Tracks, CurrentIndex, Loop>>
    /\ UNCHANGED nonPlayer

\* --------------------------------------------------------------------
\* handlePlay (commands.go:305-378)
\* --------------------------------------------------------------------
\* handlers start in the order of their slots
PlayMayStart(h) == plays[h] = "new" /\ (IF h = 1 THEN TRUE ELSE plays[h - 1] # "new")

\* commands.go:318: if p.VoiceConnection == nil
PlayCheckVoice(h) ==
    /\ PlayMayStart(h)
    /\ plays' = [plays EXCEPT ![h] = IF VoiceConnection = 0 THEN "join" ELSE "resolve"]
    /\ UNCHANGED <<VoiceConnection, nJoins, speaking, Playing, Paused,
                   LoopRunning, CurrentPosition, stopChan, doneChan, encoder,
                   pumps, nPumps, loops, nLoops, cmds, nQueued, reported,
                   skipWait, Tracks, CurrentIndex, Loop>>
    /\ UNCHANGED nonPlayer

\* commands.go:319-323: p.VoiceConnection = vc
PlayJoin(h) ==
    /\ plays[h] = "join"
    /\ VoiceConnection' = nJoins + 1
    /\ nJoins' = nJoins + 1
    /\ plays' = [plays EXCEPT ![h] = "resolve"]
    /\ UNCHANGED <<speaking, Playing, Paused, LoopRunning, CurrentPosition,
                   stopChan, doneChan, encoder, pumps, nPumps, loops, nLoops,
                   cmds, nQueued, reported, skipWait, Tracks, CurrentIndex,
                   Loop>>
    /\ UNCHANGED nonPlayer

\* the tracks resolveQuery returns, each a new *Track
Resolved(n) == [k \in 1..n |-> nQueued + k]

\* commands.go:332-350: resolveQuery, then p.Queue.Add for every track
PlayResolve(h) ==
    /\ plays[h] = "resolve"
    /\ \E n \in 0..(MaxQueued - nQueued) :
          /\ Tracks' = Tracks \o Resolved(n)
          /\ nQueued' = nQueued + n
          /\ plays' = [plays EXCEPT ![h] = IF n = 0 THEN "done" ELSE "check"]
    /\ UNCHANGED <<VoiceConnection, nJoins, speaking, Playing, Paused,
                   LoopRunning, CurrentPosition, stopChan, doneChan, encoder,
                   pumps, nPumps, loops, nLoops, cmds, reported, skipWait,
                   CurrentIndex, Loop>>
    /\ UNCHANGED nonPlayer

\* commands.go:353: if !p.IsLoopRunning()
PlayCheckLoop(h) ==
    /\ plays[h] = "check"
    /\ muFree
    /\ plays' = [plays EXCEPT ![h] = IF LoopRunning THEN "done" ELSE "spawn"]
    /\ UNCHANGED <<VoiceConnection, nJoins, speaking, Playing, Paused,
                   LoopRunning, CurrentPosition, stopChan, doneChan, encoder,
                   pumps, nPumps, loops, nLoops, cmds, nQueued, reported,
                   skipWait, Tracks, CurrentIndex, Loop>>
    /\ UNCHANGED nonPlayer

\* commands.go:354-355: p.SetLoopRunning(true); go b.playLoop(...)
PlayStartLoop(h) ==
    /\ plays[h] = "spawn"
    /\ muFree
    /\ nLoops < MaxLoops
    /\ LoopRunning' = TRUE
    /\ loops' = [loops EXCEPT ![nLoops + 1] = [NoLoop EXCEPT !.pc = "current"]]
    /\ nLoops' = nLoops + 1
    /\ plays' = [plays EXCEPT ![h] = "done"]
    /\ UNCHANGED <<VoiceConnection, nJoins, speaking, Playing, Paused,
                   CurrentPosition, stopChan, doneChan, encoder, pumps,
                   nPumps, cmds, nQueued, reported, skipWait, Tracks,
                   CurrentIndex, Loop>>
    /\ UNCHANGED nonPlayer

\* --------------------------------------------------------------------
\* command handlers (commands.go:580-617, 695-701, 733-744, 760-775)
\* --------------------------------------------------------------------
\* commands arrive in the order of their slots
CmdMayStart(c) == cmds[c].pc = "new" /\ (IF c = 1 THEN TRUE ELSE cmds[c - 1].pc # "new")

\* a handler that has returned
CmdDone == [NoCmd EXCEPT !.pc = "done"]

CmdAt(c, op, pc) ==
    [cmds EXCEPT ![c] = IF pc = "done" THEN CmdDone
                        ELSE [op |-> op, pc |-> pc, arg |-> 0, len |-> 0]]

\* handlePause: GuildPlayer.Pause (part_002:536-542)
CmdPause(c) ==
    /\ CmdMayStart(c)
    /\ muFree
    /\ Paused' = TRUE
    /\ Playing' = FALSE
    /\ cmds' = CmdAt(c, "pause", "done")
    /\ UNCHANGED <<VoiceConnection, nJoins, speaking, LoopRunning,
                   CurrentPosition, stopChan, doneChan, encoder, pumps,
                   nPumps, loops, nLoops, plays, nQueued, reported, skipWait,
                   Tracks, CurrentIndex, Loop>>
    /\ UNCHANGED nonPlayer

\* handleResume: GuildPlayer.Resume (part_002:545-553)
CmdResume(c) ==
    /\ CmdMayStart(c)
    /\ muFree
    /\ Paused' = FALSE
    /\ Playing' = (Paused \/ Playing)
    /\ cmds' = CmdAt(c, "resume", "done")
    /\ UNCHANGED <<VoiceConnection, nJoins, speaking, LoopRunning,
                   CurrentPosition, stopChan, doneChan, encoder, pumps,
                   nPumps, loops, nLoops, plays, nQueued, reported, skipWait,
                   Tracks, CurrentIndex, Loop>>
    /\ UNCHANGED nonPlayer

\* handleLoop (commands.go:736): p.Queue.Loop = !p.Queue.Loop takes no
\* lock; this is its read of the flag
CmdLoopRead(c) ==
    /\ CmdMayStart(c)
    /\ cmds' = [cmds EXCEPT ![c] = [op |-> "loop", pc |-> "write",
                                    arg |-> IF Loop THEN 1 ELSE 0, len |-> 0]]
    /\ UNCHANGED <<VoiceConnection, nJoins, speaking, Playing, Paused,
                   LoopRunning, CurrentPosition, stopChan, doneChan, encoder,
                   pumps, nPumps, loops, nLoops, plays, nQueued, reported,
                   skipWait, Tracks, CurrentIndex, Loop>>
    /\ UNCHANGED nonPlayer

\* handleLoop (commands.go:736-743): the write of the negated value read
CmdLoopWrite(c) ==
    /\ cmds[c].op = "loop" /\ cmds[c].pc = "write"
    /\ Loop' = ~(cmds[c].arg = 1)
    /\ cmds' = [cmds EXCEPT ![c] = CmdDone]
    /\ UNCHANGED <<VoiceConnection, nJoins, speaking, Playing, Paused,
                   LoopRunning, CurrentPosition, stopChan, doneChan, encoder,
                   pumps, nPumps, loops, nLoops, plays, nQueued, reported,
                   skipWait, Tracks, CurrentIndex>>
    /\ UNCHANGED nonPlayer

\* handleLoop (commands.go:733-744)
CmdLoop(c) == CmdLoopRead(c) \/ CmdLoopWrite(c)

\* a playTrack goroutine inside its frame loop
Pumping(i) == pumps[i].pc \in {"pause", "stopchk", "frame", "send"}

\* the one play loop that waits for a track the one pump is playing, with
\* the loop flag off and another track behind the cursor; 0 if there is none
SkippedLoop ==
    IF /\ Playing
       /\ ~Loop
       /\ Peek(Tracks, CurrentIndex) # Nil
       /\ nLoops = 1
       /\ loops[1].pc = "wait"
       /\ loops[1].pump # 0
       /\ Pumping(loops[1].pump)
       /\ pumps[loops[1].pump].track = Current(Tracks, CurrentIndex)
       /\ \A i \in Pumps : Alive(i) => i = loops[1].pump
       /\ stopChan = <<>>
    THEN 1 ELSE 0

\* the play loop that waits for the completion of the only track of the
\* queue, which is playing with the loop flag off; 0 if there is none
SkippedLast ==
    IF /\ Playing
       /\ ~Loop
       /\ Len(Tracks) = 1 /\ CurrentIndex = 0
       /\ nLoops = 1
       /\ loops[1].pc = "wait"
       /\ loops[1].pump # 0
       /\ Pumping(loops[1].pump)
       /\ pumps[loops[1].pump].track = Current(Tracks, CurrentIndex)
       /\ \A i \in Pumps : Alive(i) => i = loops[1].pump
       /\ stopChan = <<>>
    THEN 1 ELSE 0

\* handleSkip: GuildPlayer.Skip (part_002:578-589) is Stop and a look at
\* the track behind the cursor
CmdSkip(c) ==
    /\ CmdMayStart(c)
    /\ muFree
    /\ Stop
    /\ cmds' = CmdAt(c, "skip", "done")
    /\ skipWait' = IF SkippedLoop # 0 /\ skipWait.st = "none"
                   THEN [st |-> "armed", loop |-> SkippedLoop, last |-> FALSE]
                   ELSE IF SkippedLast # 0 /\ skipWait.st = "none"
                   THEN [st |-> "armed", loop |-> SkippedLast, last |-> TRUE]
                   ELSE skipWait
    /\ UNCHANGED <<loops, nLoops, plays, nQueued, reported>>
    /\ UNCHANGED qvars
    /\ UNCHANGED nonPlayer

\* handleSeek: GuildPlayer.Seek begins with p.Stop() (part_002:594).  arg
\* keeps whether the player was playing when Seek was called.
CmdSeekStop(c) ==
    /\ CmdMayStart(c)
    /\ muFree
    /\ Stop
    /\ cmds' = [cmds EXCEPT ![c] = [op |-> "seek", pc |-> "locked",
                                    arg |-> IF Playing THEN 1 ELSE 0, len |-> 0]]
    /\ UNCHANGED <<loops, nLoops, plays, nQueued, reported, skipWait>>
    /\ UNCHANGED qvars
    /\ UNCHANGED nonPlayer

\* Seek's test of the position (part_002:604)
SeekValid(track, position) ==
    ~(position < 0 \/ (~IsLive(track) /\ position > Duration(track)))

\* GuildPlayer.Seek under p.mu (part_002:596-615)
CmdSeekLocked(c) ==
    /\ cmds[c].pc = "locked"
    /\ muFree
    /\ \E position \in SeekPositions :
          LET track == Current(Tracks, CurrentIndex)
          IN IF track # Nil /\ SeekValid(track, position)
             THEN /\ nPumps < MaxPumps
                  /\ CurrentPosition' = position
                  /\ Playing' = TRUE
                  /\ Paused' = FALSE
                  /\ pumps' = [StartPump(track) EXCEPT ![nPumps + 1].seek = position]
                  /\ nPumps' = nPumps + 1
                  /\ cmds' = [cmds EXCEPT ![c] = CmdDone]
             ELSE /\ cmds' = [cmds EXCEPT ![c] = CmdDone]
                  /\ UNCHANGED <<CurrentPosition, Playing, Paused, pumps, nPumps>>
    /\ UNCHANGED <<VoiceConnection, nJoins, speaking, LoopRunning, stopChan,
                   doneChan, encoder, loops, nLoops, plays, nQueued,
                   reported, skipWait, Tracks, CurrentIndex, Loop>>
    /\ UNCHANGED nonPlayer

\* the /play commands that have returned
PlaysDone == Cardinality({h \in PlayCalls : plays[h] = "done"})

\* handleStop (commands.go:610-617): p.Stop()
CmdStopStop(c) ==
    /\ CmdMayStart(c)
    /\ muFree
    /\ Stop
    /\ cmds' = [cmds EXCEPT ![c] = [op |-> "stop", pc |-> "clear", arg |-> PlaysDone, len |-> 0]]
    /\ UNCHANGED <<loops, nLoops, plays, nQueued, reported, skipWait>>
    /\ UNCHANGED qvars
    /\ UNCHANGED nonPlayer

\* handleStop: p.Queue.ClearAll()
CmdStopClearAll(c) ==
    /\ cmds[c].pc = "clear"
    /\ Tracks' = ClearAllTracks(Tracks)
    /\ CurrentIndex' = -1
    /\ cmds' = [cmds EXCEPT ![c].pc = "discStop"]
    /\ UNCHANGED <<VoiceConnection, nJoins, speaking, Playing, Paused,
                   LoopRunning, CurrentPosition, stopChan, doneChan, encoder,
                   pumps, nPumps, loops, nLoops, plays, nQueued, reported,
                   skipWait, Loop>>
    /\ UNCHANGED nonPlayer

\* handleDisconnect (commands.go:695-701) begins p.Disconnect()
CmdDisconnect(c) ==
    /\ CmdMayStart(c)
    /\ cmds' = CmdAt(c, "disconnect", "discStop")
    /\ UNCHANGED <<VoiceConnection, nJoins, speaking, Playing, Paused,
                   LoopRunning, CurrentPosition, stopChan, doneChan, encoder,
                   pumps, nPumps, loops, nLoops, plays, nQueued, reported,
                   skipWait, Tracks, CurrentIndex, Loop>>
    /\ UNCHANGED nonPlayer

\* GuildPlayer.Disconnect: p.Stop() (part_002:658)
CmdDisconnectStop(c) ==
    /\ cmds[c].pc = "discStop"
    /\ muFree
    /\ Stop
    /\ cmds' = [cmds EXCEPT ![c].pc = "disc"]
    /\ UNCHANGED <<loops, nLoops, plays, nQueued, reported, skipWait>>
    /\ UNCHANGED qvars
    /\ UNCHANGED nonPlayer

\* a stop command that returned before any /play was issued
StoppedFirst == [CmdDone EXCEPT !.op = "stop"]

\* the handler in slot c returns from p.Disconnect() and from the command
DisconnectReturn(c) ==
    [cmds EXCEPT ![c] =
        IF cmds[c].op = "stop" /\ \A h \in PlayCalls : plays[h] = "new"
        THEN StoppedFirst ELSE CmdDone]

\* GuildPlayer.Disconnect (part_002:660-664): p.mu.Lock() and, with a
\* connection, the call of VoiceConnection.Disconnect; with none it returns
CmdDisconnectCall(c) ==
    /\ cmds[c].pc = "disc"
    /\ muFree
    /\ cmds' = IF VoiceConnection # 0
               THEN [cmds EXCEPT ![c].pc = "discCall"]
               ELSE DisconnectReturn(c)
    /\ UNCHANGED <<VoiceConnection, nJoins, speaking, Playing, Paused,
                   LoopRunning, CurrentPosition, stopChan, doneChan, encoder,
                   pumps, nPumps, loops, nLoops, plays, nQueued, reported,
                   skipWait, Tracks, CurrentIndex, Loop>>
    /\ UNCHANGED nonPlayer

\* GuildPlayer.Disconnect (part_002:664-666): VoiceConnection.Disconnect
\* returns, p.VoiceConnection = nil, the deferred unlock; the handler returns
CmdDisconnectClose(c) ==
    /\ cmds[c].pc = "discCall"
    /\ VoiceConnection' = 0
    /\ cmds' = DisconnectReturn(c)
    /\ UNCHANGED <<nJoins, speaking, Playing, Paused, LoopRunning,
                   CurrentPosition, stopChan, doneChan, encoder, pumps,
                   nPumps, loops, nLoops, plays, nQueued, reported, skipWait,
                   Tracks, CurrentIndex, Loop>>
    /\ UNCHANGED nonPlayer

\* the playTrack goroutine that plays the current track and is about to look
\* at stopChan before its first frame, with nothing asked to stop; 0 if
\* there is none
PlayingCurrent ==
    IF \E i \in Pumps :
          /\ Playing
          /\ stopChan = <<>>
          /\ pumps[i].pc \in {"pause", "stopchk"}
          /\ ~pumps[i].sent /\ ~pumps[i].cleaned
          /\ pumps[i].track = Current(Tracks, CurrentIndex)
          /\ \A j \in Pumps : Alive(j) => j = i
    THEN CHOOSE i \in Pumps : Pumping(i) /\ pumps[i].track = Current(Tracks, CurrentIndex)
    ELSE 0

\* handleRemove (commands.go:807-817): p.Queue.Remove(position)
CmdRemove(c) ==
    /\ CmdMayStart(c)
    /\ \E index \in 0..MaxQueued :
          IF ValidIndex(Tracks, index)
          THEN /\ Tracks' = RemoveAt(Tracks, index)
               /\ CurrentIndex' = RemoveIndex(CurrentIndex, index)
               /\ cmds' = [cmds EXCEPT ![c] =
                              [op |-> "remove", pc |-> "respond",
                               arg |-> IF index = CurrentIndex THEN PlayingCurrent ELSE 0,
                               len |-> 0]]
          ELSE /\ cmds' = CmdAt(c, "remove", "done")
               /\ UNCHANGED <<Tracks, CurrentIndex>>
    /\ UNCHANGED <<VoiceConnection, nJoins, speaking, Playing, Paused,
                   LoopRunning, CurrentPosition, stopChan, doneChan, encoder,
                   pumps, nPumps, loops, nLoops, plays, nQueued, reported,
                   skipWait, Loop>>
    /\ UNCHANGED nonPlayer

\* handleRemove: b.respond, return
CmdRemoveRespond(c) ==
    /\ cmds[c].op = "remove"
    /\ cmds[c].pc = "respond"
    /\ cmds' = [cmds EXCEPT ![c] = CmdDone]
    /\ UNCHANGED <<VoiceConnection, nJoins, speaking, Playing, Paused,
                   LoopRunning, CurrentPosition, stopChan, doneChan, encoder,
                   pumps, nPumps, loops, nLoops, plays, nQueued, reported,
                   skipWait, Tracks, CurrentIndex, Loop>>
    /\ UNCHANGED nonPlayer

\* --------------------------------------------------------------------
\* the player of one guild with its goroutines
\* --------------------------------------------------------------------
Init == QueueNew /\ CacheUnused /\ PlayerNew /\ EncoderNew /\ VolumeNew /\ FramingNew /\ FormatsNew /\ LocksNew

PumpStep(i) ==
    \/ PumpStart(i)
    \/ PumpEncode(i)
    \/ PumpSetEncoder(i)
    \/ PumpSpeaking(i)
    \/ PumpPauseCheck(i)
    \/ PumpStopCheck(i)
    \/ PumpOpusFrame(i)
    \/ PumpSend(i)
    \/ PumpSpeakingStop(i)
    \/ PumpFinish(i)

LoopStep(l) ==
    \/ LoopCurrent(l)
    \/ LoopNext(l)
    \/ LoopPlay(l)
    \/ LoopRetry(l)
    \/ LoopFail(l)
    \/ LoopWaitDone(l)
    \/ LoopWaitTimeout(l)
    \/ LoopAfter(l)
    \/ LoopLostClear(l)
    \/ LoopLostSetLoop(l)
    \/ LoopPeek(l)
    \/ LoopAdvance(l)
    \/ LoopExitClear(l)
    \/ LoopExitSetLoop(l)
    \/ LoopExitStop(l)
    \/ LoopExitCall(l)
    \/ LoopExitDisconnect(l)

PlayStep(h) ==
    \/ PlayCheckVoice(h)
    \/ PlayJoin(h)
    \/ PlayResolve(h)
    \/ PlayCheckLoop(h)
    \/ PlayStartLoop(h)

\* the orders rand.Shuffle can leave s in
Shuffled(s) ==
    LET one == {f \in [1..Len(s) -> 1..Len(s)] :
                   \A i, j \in 1..Len(s) : f[i] = f[j] => i = j}
    IN {[i \in 1..Len(s) |-> s[f[i]]] : f \in one}

Smaller(a, b) == IF a < b THEN a ELSE b

\* what the shuffle of handleShuffle makes of the queue: it works on the
\* slice header read earlier (the first n slots of the array) and on the
\* cursor read earlier, not on what they are now
ShuffleFrom(tracks, current, n) ==
    LET last == Smaller(n, Len(tracks))
        first == Smaller(IF current >= 0 THEN current + 1 ELSE 0, last)
    IN {SubSeq(tracks, 1, first) \o s \o SubSeq(tracks, last + 1, Len(tracks)) :
           s \in Shuffled(SubSeq(tracks, first + 1, last))}

\* handleShuffle (commands.go:704-714): the Length check, then the unlocked
\* reads of p.Queue.CurrentIndex and p.Queue.Tracks
CmdShuffleRead(c) ==
    /\ CmdMayStart(c)
    /\ cmds' = [cmds EXCEPT ![c] =
                   IF Len(Tracks) <= 1 THEN CmdDone
                   ELSE [op |-> "shuffle", pc |-> "shuffle",
                         arg |-> CurrentIndex, len |-> Len(Tracks)]]
    /\ UNCHANGED <<VoiceConnection, nJoins, speaking, Playing, Paused,
                   LoopRunning, CurrentPosition, stopChan, doneChan, encoder,
                   pumps, nPumps, loops, nLoops, plays, nQueued, reported,
                   skipWait, Tracks, CurrentIndex, Loop>>
    /\ UNCHANGED nonPlayer

\* handleShuffle (commands.go:716-730): rand.Shuffle on the slice read
CmdShuffle(c) ==
    /\ cmds[c].op = "shuffle" /\ cmds[c].pc = "shuffle"
    /\ Tracks' \in ShuffleFrom(Tracks, cmds[c].arg, cmds[c].len)
    /\ cmds' = [cmds EXCEPT ![c] = CmdDone]
    /\ UNCHANGED <<VoiceConnection, nJoins, speaking, Playing, Paused,
                   LoopRunning, CurrentPosition, stopChan, doneChan, encoder,
                   pumps, nPumps, loops, nLoops, plays, nQueued, reported,
                   skipWait, CurrentIndex, Loop>>
    /\ UNCHANGED nonPlayer

CmdStep(c) ==
    \/ CmdPause(c)
    \/ CmdResume(c)
    \/ CmdLoop(c)
    \/ CmdSkip(c)
    \/ CmdSeekStop(c)
    \/ CmdSeekLocked(c)
    \/ CmdStopStop(c)
    \/ CmdStopClearAll(c)
    \/ CmdDisconnect(c)
    \/ CmdDisconnectStop(c)
    \/ CmdDisconnectCall(c)
    \/ CmdDisconnectClose(c)
    \/ CmdRemove(c)
    \/ CmdRemoveRespond(c)
    \/ CmdShuffleRead(c)
    \/ CmdShuffle(c)

\* one /play command, its play loop, and the other commands
Next ==
    \/ \E i \in Pumps : PumpStep(i)
    \/ LoopStep(1)
    \/ PlayStep(1)
    \/ \E c \in Cmds : CmdStep(c)

Spec == Init /\ [][Next]_vars

\* concurrent /play commands, the play loops they start, and one /loop
NextPlay ==
    \/ \E i \in Pumps : PumpStep(i)
    \/ \E l \in Loops : LoopStep(l)
    \/ \E h \in PlayCalls : PlayStep(h)
    \/ CmdLoop(1)

SpecPlay == Init /\ [][NextPlay]_vars

(***************************************************************************)
(* Claims about the play loop and the frame pump                           *)
(***************************************************************************)
\* C1: under any interleaving of concurrent /play commands for one guild,
\* at most one playLoop goroutine is active at any time.
C1_OneLoopPerGuild == Cardinality({l \in Loops : LoopAlive(l)}) <= 1

\* C2: at most one playTrack goroutine is active at a time: no playTrack has
\* sent a frame while a playTrack started before it is still in its frame
\* loop.
C2_OnePumpAtATime ==
    \A i, j \in Pumps : (i < j /\ Pumping(i)) => ~pumps[j].sent

\* C6: a skip of a playing track that has a track behind it (loop off) ends
\* the play loop's wait for completion by the skip, never by the 3-hour
\* safety timeout.
C6_SkipEndsWait == ~skipWait.last => skipWait.st # "timeout"

\* C7: when the encoder of the track a play loop started could not be
\* constructed, the loop has attempted playback a second time and has sent
\* the failure message for the track before it goes on.
C7_FailedEncoderRetried ==
    \A l \in Loops :
        (/\ nLoops = 1
         /\ loops[l].pc = "after"
         /\ loops[l].pump # 0
         /\ pumps[loops[l].pump].failed)
        => (loops[l].attempts = 2 /\ loops[l].track \in reported)

\* C8: no playTrack is ended by a stop token that Stop() placed on stopChan
\* before that playTrack was started.
C8_NoStaleStop == \A i \in Pumps : ~pumps[i].stale

\* C11: once Remove(i) with i the cursor has returned while the track at the
\* cursor was playing, playback of the removed track stops: its playTrack
\* sends no further frame unless it was told to stop.
C11_RemoveCurrentStops ==
    \A c \in Cmds :
        (cmds[c].op = "remove" /\ cmds[c].arg # 0)
        => ~(/\ pumps[cmds[c].arg].sent
             /\ ~pumps[cmds[c].arg].cleaned
             /\ ~pumps[cmds[c].arg].stale)

\* the play loop is past WaitForCompletion and on its way out
Leaving(l) ==
    loops[l].pc \in {"peek", "exitClear", "exitSetLoop", "exitStop", "exitDisc",
                     "exitCall"}

\* only the first /play has been issued and it started the only play loop
OnePlay == nLoops = 1 /\ \A h \in PlayCalls : h > 1 => plays[h] = "new"

\* C12: when the last track has played to completion with loop off, the play
\* loop is never held up on its way out, and when it has terminated the
\* queue is empty with CurrentIndex -1, LoopRunning is false and
\* VoiceConnection is nil.
C12_ExhaustedQueueDisconnects ==
    \A l \in Loops :
        /\ (OnePlay /\ Leaving(l)) => ENABLED LoopStep(l)
        /\ (OnePlay /\ loops[l].pc = "done")
           => /\ Tracks = <<>>
              /\ CurrentIndex = -1
              /\ ~LoopRunning
              /\ VoiceConnection = 0

\* the only track was sent to the end of its stream and the loop has ended
C12_Witness ==
    /\ OnePlay
    /\ loops[1].pc = "done"
    /\ ~Loop
    /\ nQueued = 1
    /\ pumps[1].sent /\ pumps[1].pc = "exited" /\ ~pumps[1].stale
    /\ nPumps = 1

\* C13: after a stop command has completed, a later /play that adds a track
\* gets a play loop, and the play loop does not end before a frame of the
\* added track was sent to the voice connection (no encoder having failed
\* and no other command having been issued).
C13_PlayAfterStopPlays ==
    (/\ \E c \in Cmds : /\ cmds[c] = StoppedFirst
                        /\ \A d \in Cmds \ {c} : cmds[d].pc = "new"
     /\ plays[1] = "done"
     /\ nQueued >= 1
     /\ \A i \in Pumps : ~pumps[i].failed)
    => /\ nLoops >= 1
       /\ loops[1].pc = "done" => \E i \in Pumps : pumps[i].sent

\* the stop command in slot c returns in this step, no other command and no
\* /play having run since it began
StopReturns(c) ==
    /\ cmds[c].op = "stop" /\ cmds[c].pc \in {"disc", "discCall"}
    /\ cmds'[c].pc = "done"
    /\ \A d \in Cmds \ {c} : cmds[d].pc = "new"
    /\ \A h \in PlayCalls : plays[h] \in {"new", "done"}
    /\ cmds[c].arg = PlaysDone

\* C14: when the stop command (Stop, ClearAll, Disconnect) returns, the queue
\* has no tracks, CurrentIndex is -1, Playing and Paused are false,
\* CurrentPosition is 0, the encoder reference is nil and VoiceConnection is
\* nil.
C14_StopCommandResets ==
    [][\A c \in Cmds :
          StopReturns(c)
          => /\ Tracks' = <<>>
             /\ CurrentIndex' = -1
             /\ ~Playing' /\ ~Paused'
             /\ CurrentPosition' = 0
             /\ encoder' = 0
             /\ VoiceConnection' = 0]_vars

\* C15: when a track has ended with the loop flag on and the voice
\* connection present, the play loop goes back to the same track: the
\* cursor still selects it, and the next playback the loop starts is of
\* that track.
C15_LoopReplaysTrack ==
    \A l \in Loops :
        (nLoops = 1 /\ loops[l].again # 0)
        => /\ Current(Tracks, CurrentIndex) = loops[l].again
           /\ loops[l].pc \in {"current", "play", "wait", "after"}
           /\ loops[l].pc # "current" => loops[l].track = loops[l].again
           /\ loops[l].pc \in {"wait", "after"}
              => /\ loops[l].pump # 0
                 /\ Alive(loops[l].pump) => pumps[loops[l].pump].track = loops[l].again

\* the second playback of the first track is under way
C15_Witness ==
    /\ nLoops = 1
    /\ loops[1].pc = "wait"
    /\ loops[1].again = 1
    /\ loops[1].pump = 2
    /\ Pumping(2) /\ pumps[2].track = 1
    /\ pumps[1].sent /\ pumps[1].pc = "exited"
    /\ CurrentIndex = 0

(***************************************************************************)
(* Encoder: StreamingEncoder (part_003:162-274).  CustomEncoder            *)
(* (ffmpeg_encoder.go:87-177) has the same encodeLoop, OpusFrame and       *)
(* Cleanup.  One encoder is followed from its construction: its            *)
(* subprocess, its encodeLoop goroutine, the frame loop of the playTrack   *)
(* goroutine that built it (part_002:460-504) and the callers of Cleanup   *)
(* (Stop, part_002:556-575, and playTrack itself, part_002:511-515).       *)
(*                                                                         *)
(* The unit of PCM is one Read of encodeLoop.  A Read that fills the       *)
(* buffer yields one frame; a shorter one yields none.                     *)
(***************************************************************************)

\* the subprocess writes PCM to its stdout
FfmpegWrite ==
    /\ ffmpeg.st = "running" /\ ffmpeg.left > 0 /\ ffmpeg.pipe < PipeCap
    /\ ffmpeg' = [ffmpeg EXCEPT !.left = @ - 1, !.pipe = @ + 1]
    /\ UNCHANGED <<frameChan, frameClosed, encStopChan, done, mu, encodeLoop,
                   frameCount, cleaners, playTrack, trackStop, opusSend,
                   ehist>>
    /\ UNCHANGED nonEncoder

\* the subprocess exits, at the end of its input or before it
FfmpegExit ==
    /\ ffmpeg.st = "running"
    /\ ffmpeg' = [ffmpeg EXCEPT !.st = "exited", !.left = 0]
    /\ UNCHANGED <<frameChan, frameClosed, encStopChan, done, mu, encodeLoop,
                   frameCount, cleaners, playTrack, trackStop, opusSend,
                   ehist>>
    /\ UNCHANGED nonEncoder

\* Process.Kill: the process dies with what it had not written yet
Kill(f) == IF f.st = "running" THEN [f EXCEPT !.st = "exited", !.left = 0] ELSE f

\* cmd.Wait: reaps the process and closes the pipe returned by StdoutPipe
Wait(f) == [f EXCEPT !.st = "reaped", !.pipe = 0]

\* what encodeLoop is doing: blocked in Read, blocked in the send, or running
LoopAt ==
    IF encodeLoop.pc = "send" /\ Len(frameChan) = FrameChanCap THEN "blockedSend"
    ELSE IF encodeLoop.pc = "read" /\ ffmpeg.st = "running" /\ ffmpeg.pipe = 0
         THEN "blockedRead"
    ELSE encodeLoop.pc

DeferCloseSkipped(closed) == closed

\* defer close(e.frameChan)
DeferClose(closed) == TRUE

\* encodeLoop returns
LoopReturn ==
    /\ encodeLoop' = [pc |-> "exited", frame |-> 0]
    /\ frameClosed' = DeferClose(frameClosed)

\* the stop check at the top of the loop
LoopSelect ==
    /\ encodeLoop.pc = "select"
    /\ IF encStopChan # <<>>
       THEN /\ encStopChan' = <<>>
            /\ ffmpeg' = Kill(ffmpeg)
            /\ LoopReturn
       ELSE /\ encodeLoop' = [encodeLoop EXCEPT !.pc = "read"]
            /\ UNCHANGED <<encStopChan, ffmpeg, frameClosed>>
    /\ UNCHANGED <<frameChan, done, mu, frameCount, cleaners, playTrack,
                   trackStop, opusSend, ehist>>
    /\ UNCHANGED nonEncoder

\* reader.Read and the encoding of what it returned: an error once Wait has
\* closed the pipe; a full buffer (one frame, or an Opus error) or a short
\* read while the pipe holds data; EOF when the process is gone; else it blocks
ReadOutcomes(f) ==
    IF f.st = "reaped" THEN {"error"}
    ELSE IF f.pipe > 0 THEN {"frame", "short", "encodeError"}
    ELSE IF f.st = "exited" THEN {"EOF"}
    ELSE {}

LoopRead ==
    /\ encodeLoop.pc = "read"
    /\ \E r \in ReadOutcomes(ffmpeg) :
          /\ ffmpeg' = IF r \in {"frame", "short", "encodeError"}
                       THEN [ffmpeg EXCEPT !.pipe = @ - 1] ELSE ffmpeg
          /\ IF r = "frame"
             THEN /\ encodeLoop' = [pc |-> "send", frame |-> frameCount + 1]
                  /\ UNCHANGED frameClosed
             ELSE IF r = "short"
             THEN /\ encodeLoop' = [pc |-> "select", frame |-> 0]
                  /\ UNCHANGED frameClosed
             ELSE LoopReturn
    /\ UNCHANGED <<frameChan, encStopChan, done, mu, frameCount, cleaners,
                   playTrack, trackStop, opusSend, ehist>>
    /\ UNCHANGED nonEncoder

\* select { case e.frameChan <- opusFrame: ...; case <-e.stopChan: ... }
LoopSend ==
    /\ encodeLoop.pc = "send"
    /\ \/ /\ Len(frameChan) < FrameChanCap
          /\ frameChan' = Append(frameChan, encodeLoop.frame)
          /\ frameCount' = frameCount + 1
          /\ encodeLoop' = [pc |-> "select", frame |-> 0]
          /\ UNCHANGED <<encStopChan, ffmpeg, frameClosed>>
       \/ /\ encStopChan # <<>>
          /\ encStopChan' = <<>>
          /\ ffmpeg' = Kill(ffmpeg)
          /\ LoopReturn
          /\ UNCHANGED <<frameChan, frameCount>>
    /\ UNCHANGED <<done, mu, cleaners, playTrack, trackStop, opusSend, ehist>>
    /\ UNCHANGED nonEncoder

\* a goroutine calls Cleanup and waits for e.mu; Stop first signals the
\* playTrack goroutine, playTrack calls it with no signal
CleanupCall(k) ==
    /\ cleaners[k] = "idle" /\ ehist.calls < MaxCleanups
    /\ \E stop \in BOOLEAN : trackStop' = (trackStop \/ stop)
    /\ cleaners' = [cleaners EXCEPT ![k] = "lock"]
    /\ ehist' = [ehist EXCEPT !.calls = @ + 1, !.overlap = @ \/ (mu # 0)]
    /\ UNCHANGED <<frameChan, frameClosed, encStopChan, done, mu, ffmpeg,
                   encodeLoop, frameCount, playTrack, opusSend>>
    /\ UNCHANGED nonEncoder

CleanupDoneIgnored(d) == FALSE

\* if e.done { return nil }
CleanupDone(d) == d

\* e.mu.Lock(), the done check and e.done = true
CleanupEnter(k) ==
    /\ cleaners[k] = "lock" /\ mu = 0
    /\ IF CleanupDone(done)
       THEN /\ cleaners' = [cleaners EXCEPT ![k] = "idle"]
            /\ ehist' = [ehist EXCEPT !.returns = @ + 1]
            /\ UNCHANGED <<mu, done>>
       ELSE /\ mu' = k
            /\ done' = TRUE
            /\ cleaners' = [cleaners EXCEPT ![k] = "signal"]
            /\ ehist' = [ehist EXCEPT !.at = IF @ = "none" THEN LoopAt ELSE @]
    /\ UNCHANGED <<frameChan, frameClosed, encStopChan, ffmpeg, encodeLoop,
                   frameCount, playTrack, trackStop, opusSend>>
    /\ UNCHANGED nonEncoder

\* select { case e.stopChan <- true: default: }
CleanupSignal(k) ==
    /\ cleaners[k] = "signal"
    /\ encStopChan' = <<TRUE>>
    /\ cleaners' = [cleaners EXCEPT ![k] = "kill"]
    /\ ehist' = [ehist EXCEPT !.signals = @ + 1]
    /\ UNCHANGED <<frameChan, frameClosed, done, mu, ffmpeg, encodeLoop,
                   frameCount, playTrack, trackStop, opusSend>>
    /\ UNCHANGED nonEncoder

\* e.ffmpegCmd.Process.Kill()
CleanupKill(k) ==
    /\ cleaners[k] = "kill"
    /\ ffmpeg' = Kill(ffmpeg)
    /\ cleaners' = [cleaners EXCEPT ![k] = "wait"]
    /\ ehist' = [ehist EXCEPT !.kills = @ + 1]
    /\ UNCHANGED <<frameChan, frameClosed, encStopChan, done, mu, encodeLoop,
                   frameCount, playTrack, trackStop, opusSend>>
    /\ UNCHANGED nonEncoder

\* return e.ffmpegCmd.Wait(), and the deferred e.mu.Unlock()
CleanupWait(k) ==
    /\ cleaners[k] = "wait"
    /\ ffmpeg.st # "running"
    /\ ffmpeg' = Wait(ffmpeg)
    /\ mu' = 0
    /\ cleaners' = [cleaners EXCEPT ![k] = "idle"]
    /\ ehist' = [ehist EXCEPT !.waits = @ + 1, !.returns = @ + 1]
    /\ UNCHANGED <<frameChan, frameClosed, encStopChan, done, encodeLoop,
                   frameCount, playTrack, trackStop, opusSend>>
    /\ UNCHANGED nonEncoder

\* playTrack: the stop check of the frame loop
TrackStopCheck ==
    /\ playTrack.pc = "stopchk"
    /\ IF trackStop
       THEN /\ trackStop' = FALSE
            /\ playTrack' = [pc |-> "stopped", frame |-> 0]
       ELSE /\ playTrack' = [pc |-> "opus", frame |-> 0]
            /\ UNCHANGED trackStop
    /\ UNCHANGED <<frameChan, frameClosed, encStopChan, done, mu, ffmpeg,
                   encodeLoop, frameCount, cleaners, opusSend, ehist>>
    /\ UNCHANGED nonEncoder

ReceiveNewest(ch) == [frame |-> ch[Len(ch)], rest |-> SubSeq(ch, 1, Len(ch) - 1)]

\* frame, ok := <-e.frameChan with a frame buffered
Receive(ch) == [frame |-> Head(ch), rest |-> Tail(ch)]

\* the receive of OpusFrame can complete
OpusFrameReady == frameChan # <<>> \/ frameClosed

\* playTrack: encoder.OpusFrame() returns a frame, or io.EOF and the loop ends
TrackOpusFrame ==
    /\ playTrack.pc = "opus"
    /\ OpusFrameReady
    /\ IF frameChan # <<>>
       THEN /\ playTrack' = [pc |-> "send", frame |-> Receive(frameChan).frame]
            /\ frameChan' = Receive(frameChan).rest
       ELSE /\ playTrack' = [pc |-> "eos", frame |-> 0]
            /\ UNCHANGED frameChan
    /\ UNCHANGED <<frameClosed, encStopChan, done, mu, ffmpeg, encodeLoop,
                   frameCount, cleaners, trackStop, opusSend, ehist>>
    /\ UNCHANGED nonEncoder

\* playTrack: select { case vc.OpusSend <- frame: ...; case <-p.stopChan: ... }
TrackSend ==
    /\ playTrack.pc = "send"
    /\ \/ /\ opusSend' = Append(opusSend, playTrack.frame)
          /\ playTrack' = [pc |-> "stopchk", frame |-> 0]
          /\ UNCHANGED trackStop
       \/ /\ trackStop
          /\ trackStop' = FALSE
          /\ playTrack' = [pc |-> "stopped", frame |-> 0]
          /\ UNCHANGED opusSend
    /\ UNCHANGED <<frameChan, frameClosed, encStopChan, done, mu, ffmpeg,
                   encodeLoop, frameCount, cleaners, ehist>>
    /\ UNCHANGED nonEncoder

InitEncoder == QueueNew /\ CacheUnused /\ PlayerNew /\ EncoderNew /\ VolumeNew /\ FramingNew /\ FormatsNew /\ LocksNew

EncodeLoopStep == LoopSelect \/ LoopRead \/ LoopSend

NextEncoder ==
    \/ FfmpegWrite
    \/ FfmpegExit
    \/ LoopSelect
    \/ LoopRead
    \/ LoopSend
    \/ \E k \in Cleaners : CleanupCall(k)
    \/ \E k \in Cleaners : CleanupEnter(k)
    \/ \E k \in Cleaners : CleanupSignal(k)
    \/ \E k \in Cleaners : CleanupKill(k)
    \/ \E k \in Cleaners : CleanupWait(k)
    \/ TrackStopCheck
    \/ TrackOpusFrame
    \/ TrackSend

\* a goroutine that can run does run: the encodeLoop goroutine and a
\* receive of OpusFrame that can complete
SpecEncoder ==
    /\ InitEncoder /\ [][NextEncoder]_vars
    /\ WF_vars(EncodeLoopStep)
    /\ WF_vars(TrackOpusFrame)

\* a Cleanup call on the encoder has returned
CleanupReturned == ehist.returns > 0

encoderState == <<frameChan, frameClosed, encStopChan, done, mu, ffmpeg>>

\* a Cleanup call before this one got past the done check
CleanedBefore == ehist.at # "none"

(***************************************************************************)
(* C17: Cleanup() of an encoder is idempotent.  A call that follows        *)
(* another one, after it or while it runs, returns without sending a stop  *)
(* signal, killing or waiting on the subprocess, and leaves the encoder    *)
(* as it found it: over any number of calls the stop signal is sent, the   *)
(* subprocess killed and waited on by Cleanup at most once.                *)
(***************************************************************************)
C17_CleanupIdempotent ==
    /\ [][\A k \in Cleaners :
            (cleaners[k] = "lock" /\ cleaners'[k] # "lock" /\ CleanedBefore)
               => /\ cleaners'[k] = "idle"
                  /\ ehist'.returns = ehist.returns + 1
                  /\ encoderState' = encoderState]_vars
    /\ [](ehist.signals <= 1 /\ ehist.kills <= 1 /\ ehist.waits <= 1)

\* a second call was made while the first one held e.mu, and both returned
C17_Witness ==
    /\ ehist.overlap
    /\ ehist.returns = 2
    /\ ehist.waits = 1
    /\ \A k \in Cleaners : cleaners[k] = "idle"

\* the frames encodeLoop produced, in the order it put them into frameChan
Produced == [i \in 1..frameCount |-> i]

IsPrefix(s, t) == Len(s) <= Len(t) /\ SubSeq(t, 1, Len(s)) = s

(***************************************************************************)
(* C18: the frames playTrack has written to the voice send channel are a   *)
(* prefix of the frames encodeLoop produced, in the same order with none   *)
(* repeated or left out; and when the end of the stream is reported with   *)
(* no Stop or Cleanup before it, every frame produced has been written.    *)
(***************************************************************************)
C18_FramesInOrder ==
    /\ IsPrefix(opusSend, Produced)
    /\ (playTrack.pc = "eos" /\ ehist.calls = 0) => opusSend = Produced

\* a stream of several frames ran to its end with no stop
C18_Witness ==
    /\ playTrack.pc = "eos"
    /\ ehist.calls = 0
    /\ Len(opusSend) >= 2

\* playTrack i has left its frame loop through io.EOF, and no Stop (of a
\* stop, skip, seek or disconnect) has cleaned up its encoder
AtEndOfStream(i) == pumps[i].pc \in {"finish", "cleanup"} /\ ~pumps[i].cleaned

SeekReturns(c) == cmds[c].pc = "locked" /\ cmds'[c].pc = "done"

(***************************************************************************)
(* C20: Seek on a current track with IsLive true returns an error for      *)
(* every position and starts no new playback of the track: no playTrack    *)
(* goroutine is spawned and the position and flags stay as Stop left them. *)
(***************************************************************************)
C20_SeekLiveFails ==
    [][\A c \in Cmds :
          (/\ SeekReturns(c)
           /\ Current(Tracks, CurrentIndex) # Nil
           /\ IsLive(Current(Tracks, CurrentIndex)))
             => /\ nPumps' = nPumps
                /\ pumps' = pumps
                /\ CurrentPosition' = CurrentPosition
                /\ Playing' = Playing]_vars

\* playTrack i was started by a Seek to the full duration of a track that is
\* not live
SoughtToEnd(i) ==
    /\ pumps[i].track # 0
    /\ ~IsLive(pumps[i].track)
    /\ pumps[i].seek = Duration(pumps[i].track)

(***************************************************************************)
(* C21: after a successful Seek(position) on a track that is not live,     *)
(* playback resumes from that position: the playTrack goroutine started    *)
(* by a Seek to the track's full duration sends no frame of the track.     *)
(***************************************************************************)
C21_SeekResumesAtPosition ==
    \A i \in Pumps : SoughtToEnd(i) => ~pumps[i].sent

(***************************************************************************)
(* Volume: SetVolume, ReduceVolume, RestoreVolume (part_002:618-654), the  *)
(* voice state handler that calls the last two (part_001:130-148) and the  *)
(* config command that sets the reduce-on-voice fields                     *)
(* (commands.go:818-842).  Playing is set by Pause and Resume.             *)
(***************************************************************************)
nonVolume == <<qvars, qlast, cvars, pvars, evars, fvars, yvars, lvars>>

\* volumes a user passes: below the range, its ends, inside it, above it
VolumeArgs == {-1, 0, VolumeMid, VolumeMax, VolumeMax + 1}

VolumeValidAboveZero(volume) == ~(volume <= 0 \/ volume > VolumeMax)

\* SetVolume's test of its argument (part_002:623)
VolumeValid(volume) == ~(volume < 0 \/ volume > VolumeMax)

VolumeCall(op, arg, ok) ==
    [op |-> op, arg |-> arg, ok |-> ok, pre |-> Volume, reducing |-> vhist.reducing]

\* handleVolume: GuildPlayer.SetVolume(volume)
SetVolume ==
    /\ muFree
    /\ \E volume \in VolumeArgs :
          /\ Volume' = IF VolumeValid(volume) THEN volume ELSE Volume
          /\ vlast' = VolumeCall("SetVolume", volume, VolumeValid(volume))
          /\ vhist' = IF VolumeValid(volume) /\ ~vhist.reducing
                      THEN [vhist EXCEPT !.before = volume] ELSE vhist
    /\ UNCHANGED <<OriginalVolume, ReduceOnVoice, ReduceOnVoiceTarget>>
    /\ UNCHANGED nonVolume

\* the guard of ReduceVolume and RestoreVolume: !p.ReduceOnVoice || !p.Playing
\* makes them return
ReduceActive == ~(~ReduceOnVoice \/ ~Playing)

\* GuildPlayer.ReduceVolume (part_002:632-642)
ReduceVolume ==
    /\ muFree
    /\ IF ReduceActive
       THEN /\ OriginalVolume' = Volume
            /\ Volume' = ReduceOnVoiceTarget
            /\ vhist' = IF vhist.reducing THEN vhist
                        ELSE [before |-> Volume, reducing |-> TRUE]
       ELSE UNCHANGED <<OriginalVolume, Volume, vhist>>
    /\ vlast' = VolumeCall("ReduceVolume", 0, ReduceActive)
    /\ UNCHANGED <<ReduceOnVoice, ReduceOnVoiceTarget>>

\* RestoreVolume: p.Volume = p.OriginalVolume
RestoredVolume(volume, original) == original

\* GuildPlayer.RestoreVolume (part_002:645-654)
RestoreVolume ==
    /\ muFree
    /\ IF ReduceActive
       THEN /\ Volume' = RestoredVolume(Volume, OriginalVolume)
            /\ vhist' = [vhist EXCEPT !.reducing = FALSE]
       ELSE UNCHANGED <<Volume, vhist>>
    /\ vlast' = VolumeCall("RestoreVolume", 0, ReduceActive)
    /\ UNCHANGED <<OriginalVolume, ReduceOnVoice, ReduceOnVoiceTarget>>

\* Bot.voiceStateUpdate: nothing for a self-muted or self-deafened user,
\* RestoreVolume for a muted or deafened one, ReduceVolume otherwise
VoiceStateUpdate ==
    /\ \E selfOff, off \in BOOLEAN :
          IF selfOff THEN UNCHANGED volvars
          ELSE IF ~off THEN ReduceVolume
          ELSE RestoreVolume
    /\ UNCHANGED nonVolume

\* handleConfig set-reduce-vol-when-voice: p.ReduceOnVoice = enabled
ConfigReduceOnVoice ==
    /\ \E enabled \in BOOLEAN :
          /\ ReduceOnVoice' = enabled
          /\ vlast' = VolumeCall("Config", 0, TRUE)
    /\ UNCHANGED <<Volume, OriginalVolume, ReduceOnVoiceTarget, vhist>>
    /\ UNCHANGED nonVolume

\* handleConfig set-reduce-vol-when-voice-target: p.ReduceOnVoiceTarget = volume
ConfigReduceTarget ==
    /\ \E volume \in {0, VolumeTarget} :
          /\ ReduceOnVoiceTarget' = volume
          /\ vlast' = VolumeCall("Config", volume, TRUE)
    /\ UNCHANGED <<Volume, OriginalVolume, ReduceOnVoice, vhist>>
    /\ UNCHANGED nonVolume

InitVolume == QueueNew /\ CacheUnused /\ PlayerNew /\ EncoderNew /\ VolumeNew /\ FramingNew /\ FormatsNew /\ LocksNew

NextVolume ==
    \/ SetVolume
    \/ VoiceStateUpdate
    \/ ConfigReduceOnVoice
    \/ ConfigReduceTarget
    \/ \E c \in Cmds : CmdPause(c)
    \/ \E c \in Cmds : CmdResume(c)

SpecVolume == InitVolume /\ [][NextVolume]_vars

(***************************************************************************)
(* C22: SetVolume(v) succeeds and stores v for every 0 <= v <= 100, 0 and  *)
(* 100 included; for every other v it returns an error and leaves Volume   *)
(* as it was.                                                              *)
(***************************************************************************)
C22_SetVolumeRange ==
    vlast.op = "SetVolume" =>
       IF 0 <= vlast.arg /\ vlast.arg <= 100
       THEN vlast.ok /\ Volume = vlast.arg
       ELSE ~vlast.ok /\ Volume = vlast.pre

\* SetVolume(0) has succeeded on a player whose volume was not 0
C22_Witness ==
    /\ vlast.op = "SetVolume" /\ vlast.arg = 0 /\ vlast.ok
    /\ vlast.pre # 0
    /\ Volume = 0

(***************************************************************************)
(* C23: with reduce-on-voice enabled and the player playing, a             *)
(* RestoreVolume that ends a reduction leaves Volume equal to the volume   *)
(* that was in effect before the reduction began, however many             *)
(* ReduceVolume calls the reduction saw.                                   *)
(***************************************************************************)
C23_RestoreGivesSavedVolume ==
    (vlast.op = "RestoreVolume" /\ vlast.ok /\ vlast.reducing)
       => Volume = vhist.before

\* the shuffle of handler c is done
ShuffleReturns(c) ==
    cmds[c].op = "shuffle" /\ cmds[c].pc = "shuffle" /\ cmds'[c].pc = "done"

(***************************************************************************)
(* C24: the shuffle command never moves the current track, also when the   *)
(* play loop advances the queue while it runs: the track at the cursor and *)
(* every track before it stay where they are, and the queue after the      *)
(* shuffle is a permutation of the queue before.                           *)
(***************************************************************************)
C24_ShuffleKeepsCurrent ==
    [][\A c \in Cmds :
          ShuffleReturns(c)
             => /\ \A k \in 1..Len(Tracks) : k <= CurrentIndex + 1 => Tracks'[k] = Tracks[k]
                /\ Tracks' \in Shuffled(Tracks)
                /\ CurrentIndex' = CurrentIndex]_vars

\* the toggle of handler c takes effect
LoopToggles(c) ==
    cmds[c].op = "loop" /\ cmds[c].pc = "write" /\ cmds'[c].pc = "done"

(***************************************************************************)
(* C25: commands issued concurrently against one guild take effect as if   *)
(* executed one after the other.  For the loop command: a toggle, when it  *)
(* takes effect, inverts the flag as it then is, so that two concurrent    *)
(* toggles leave Loop as it was before both.                               *)
(***************************************************************************)
C25_CommandsLinearised ==
    [][\A c \in Cmds : LoopToggles(c) => Loop' = ~Loop]_vars

\* goroutines inside VoiceConnection.Disconnect, a call over the network
InDisconnectCall ==
    {<<"cmd", c>> : c \in {d \in Cmds : cmds[d].pc = "discCall"}}
       \cup {<<"loop", l>> : l \in {k \in Loops : loops[k].pc = "exitCall"}}

(***************************************************************************)
(* C26: no goroutine holds the player lock (nor the queue, manager or      *)
(* cache lock) while it is blocked waiting for a subprocess to exit, on a  *)
(* voice disconnect network call, or on a channel operation.  Here: no     *)
(* goroutine is inside VoiceConnection.Disconnect while p.mu is held.      *)
(***************************************************************************)
C26_NoLockWhileBlocked == InDisconnectCall # {} => ~muHeld

\* caller c's GetOrCreate returns an error in this step because its producer
\* returned one
ProducerFails(c) ==
    goc[c].pc = "create" /\ goc'[c].pc = "idle" /\ goc'[c].ret = Failed

(***************************************************************************)
(* C27: when the producer passed to GetOrCreate returns an error,          *)
(* GetOrCreate returns an error, registers no entry, and leaves no file,   *)
(* partial or complete, at the reserved path: a path that held no file     *)
(* when the producer ran holds none at the return; the entries, and with   *)
(* them their count and total size, are as before.                         *)
(***************************************************************************)
C27_ProducerErrorLeavesNothing ==
    [][\A c \in Callers :
          ProducerFails(c)
          => /\ entries' = entries
             /\ goc[c].key \notin DOMAIN files => goc[c].key \notin DOMAIN files']_vars

(***************************************************************************)
(* C28: a single track is enqueued into an empty queue and skipped while   *)
(* it plays, nothing else queued and loop off: the play loop's wait for    *)
(* completion ends, and the loop goes on to clear the queue, reset         *)
(* LoopRunning and disconnect, as a consequence of the skip and never of   *)
(* the 3-hour completion timeout.                                          *)
(***************************************************************************)
C28_SkipOfOnlyTrackEndsLoop == skipWait.last => skipWait.st # "timeout"

\* playTrack i sends the frame it holds in this step
SendsFrame(i) == pumps[i].pc = "send" /\ pumps'[i].pc = "pause"

(***************************************************************************)
(* C31: when a stop signal is pending on stopChan while playTrack is at    *)
(* the select between the send on vc.OpusSend and the receive from         *)
(* stopChan, the stop is taken: the frame it holds is not sent.            *)
(***************************************************************************)
C31_StopPreferredOverSend ==
    [][\A i \in Pumps : stopChan # <<>> => ~SendsFrame(i)]_vars

\* playTrack i has called vc.Speaking(true) and not yet vc.Speaking(false)
InFrameLoop(i) == Pumping(i) \/ pumps[i].pc = "finish"

nonFraming == <<qvars, qlast, cvars, pvars, evars, volvars, yvars, lvars>>

\* pcmBufferSize := e.frameSize * e.channels * 2
pcmBufferSize == FrameSize * Channels * 2

\* samplesPerFrame := e.frameSize * e.channels
samplesPerFrame == FrameSize * Channels

\* "for i := 0; i+samplesPerFrame <= n/2; i += samplesPerFrame": the sample
\* offsets at which a Read of n bytes yields a frame
RECURSIVE FrameStarts(_, _)
FrameStarts(i, n) ==
    IF i + samplesPerFrame <= n \div 2
    THEN <<i>> \o FrameStarts(i + samplesPerFrame, n)
    ELSE <<>>

\* the stream offsets of the frames encoded from a Read of n bytes that
\* began at stream offset at
FramesOfRead(at, n) ==
    LET starts == FrameStarts(0, n)
    IN [k \in 1..Len(starts) |-> at + 2 * starts[k]]

\* n, err := reader.Read(pcmBuffer) with n > 0, and the frames encoded from it
PcmRead ==
    /\ framing.pc = "read"
    /\ \E n \in 1..pcmBufferSize :
          /\ framing.read + n <= MaxBytes
          /\ framing' = [framing EXCEPT !.read = @ + n,
                                        !.frames = @ \o FramesOfRead(framing.read, n)]
    /\ UNCHANGED nonFraming

\* reader.Read returns io.EOF: the stream has ended
PcmEOF ==
    /\ framing.pc = "read"
    /\ framing' = [framing EXCEPT !.pc = "done"]
    /\ UNCHANGED nonFraming

InitFraming == QueueNew /\ CacheUnused /\ PlayerNew /\ EncoderNew /\ VolumeNew /\ FramingNew /\ FormatsNew /\ LocksNew

NextFraming == PcmRead \/ PcmEOF

SpecFraming == InitFraming /\ [][NextFraming]_vars

(***************************************************************************)
(* C33: however the PCM stream is split into Reads, at its end encodeLoop  *)
(* has emitted floor(totalBytes / (frameSize*channels*2)) frames, the k-th *)
(* built from the k-th run of frameSize*channels*2 consecutive bytes: only *)
(* the incomplete frame at the end is dropped.                             *)
(***************************************************************************)
C33_FramesFromEveryRead ==
    framing.pc = "done"
    => /\ Len(framing.frames) = framing.read \div pcmBufferSize
       /\ \A k \in 1..Len(framing.frames) :
             framing.frames[k] = (k - 1) * pcmBufferSize

\* a Set or a GetOrCreate registration evicts entries in this step
EvictsNow ==
    /\ clast' # clast
    /\ clast'.op \in {"Set", "GetOrCreate"}
    /\ clast'.evicted # {}

(***************************************************************************)
(* C34: eviction is least-recently-used: an entry is evicted only if every *)
(* entry with an older last-access time is evicted in the same call; and   *)
(* an entry that a Get hit touched has a later last-access time than every *)
(* entry not accessed since, so it outlives them.                          *)
(***************************************************************************)
C34_EvictionIsLRU ==
    [][/\ EvictsNow
          => \A k \in clast'.evicted : \A j \in DOMAIN entries :
                entries[j].LastAccessed < entries[k].LastAccessed
                   => j \in clast'.evicted
       /\ \A k \in DOMAIN entries :
             (clast' # clast /\ clast'.op = "Get" /\ clast'.key = k /\ clast'.ok)
             => \A j \in DOMAIN entries' \ {k} :
                   entries'[j].LastAccessed < entries'[k].LastAccessed]_vars

\* a Set of a key evicted that key's old entry alone, and the other entry,
\* accessed after the cache was loaded, is still registered with its file
C34_Witness ==
    /\ clast.op = "Set" /\ clast.ok
    /\ clast.evicted = {clast.key}
    /\ \E a \in DOMAIN entries \ {clast.key} :
          /\ entries[a].LastAccessed > MaxInitTime
          /\ entries[a].LastAccessed < entries[clast.key].LastAccessed
          /\ a \in DOMAIN files

(***************************************************************************)
(* Stream URL selection: extractBestAudioURL (youtube.go:50-80).  A format *)
(* is [audio, video, abr, url]: audio and video say whether the codec      *)
(* field is neither "none" nor empty; url is 0 for the empty string and    *)
(* otherwise the position of the format, so that URLs are distinct; abr is *)
(* 0 when yt-dlp gives none.                                               *)
(***************************************************************************)
nonFormats == <<qvars, qlast, cvars, pvars, evars, volvars, fvars, lvars>>

EmptyURL == 0

FormatAt(pos) ==
    [audio : BOOLEAN, video : BOOLEAN, abr : 0..MaxAbr, url : {EmptyURL, pos}]

\* the first loop (youtube.go:55-69): bestURL after the formats from i on
RECURSIVE BestAudioOnly(_, _, _, _)
BestAudioOnly(formats, i, bestURL, bestBitrate) ==
    IF i > Len(formats) THEN bestURL
    ELSE LET f == formats[i]
         IN IF ~f.audio
            THEN BestAudioOnly(formats, i + 1, bestURL, bestBitrate)
            ELSE IF ~f.video /\ f.abr > bestBitrate /\ f.url # EmptyURL
            THEN BestAudioOnly(formats, i + 1, f.url, f.abr)
            ELSE BestAudioOnly(formats, i + 1, bestURL, bestBitrate)

\* the fallback loop (youtube.go:72-78): the first format with audio and a URL
RECURSIVE FirstWithAudio(_, _)
FirstWithAudio(formats, i) ==
    IF i > Len(formats) THEN EmptyURL
    ELSE IF formats[i].audio /\ formats[i].url # EmptyURL THEN formats[i].url
    ELSE FirstWithAudio(formats, i + 1)

extractBestAudioURL(formats) ==
    LET bestURL == BestAudioOnly(formats, 1, EmptyURL, 0)
    IN IF bestURL = EmptyURL THEN FirstWithAudio(formats, 1) ELSE bestURL

\* json.Unmarshal of the yt-dlp output: one more element of result.Formats
DecodeFormat ==
    /\ streamURL = NotExtracted
    /\ Len(Formats) < MaxFormats
    /\ \E f \in FormatAt(Len(Formats) + 1) : Formats' = Append(Formats, f)
    /\ UNCHANGED streamURL
    /\ UNCHANGED nonFormats

\* streamURL := extractBestAudioURL(result.Formats) (youtube.go:111)
ExtractURL ==
    /\ streamURL = NotExtracted
    /\ streamURL' = extractBestAudioURL(Formats)
    /\ UNCHANGED Formats
    /\ UNCHANGED nonFormats

InitFormats ==
    /\ QueueNew /\ CacheUnused /\ PlayerNew /\ EncoderNew /\ VolumeNew /\ FramingNew /\ FormatsNew
    /\ LocksNew

NextFormats == DecodeFormat \/ ExtractURL

SpecFormats == InitFormats /\ [][NextFormats]_vars

\* positions of the formats with audio, no video and a URL
AudioOnly == {i \in 1..Len(Formats) :
                 Formats[i].audio /\ ~Formats[i].video /\ Formats[i].url # EmptyURL}

\* positions of the formats with audio and a URL
WithAudio == {i \in 1..Len(Formats) : Formats[i].audio /\ Formats[i].url # EmptyURL}

(***************************************************************************)
(* C35: extractBestAudioURL returns the URL of an audio-only format of the *)
(* highest abr among the audio-only formats with a URL; the URL of a       *)
(* format with audio that also carries video only when there is no such    *)
(* audio-only format; and the empty string only when no format has both    *)
(* audio and a URL.                                                        *)
(***************************************************************************)
C35_BestAudioURL ==
    streamURL # NotExtracted
    => /\ AudioOnly # {}
          => \E i \in AudioOnly :
                /\ streamURL = Formats[i].url
                /\ \A j \in AudioOnly : Formats[j].abr <= Formats[i].abr
       /\ (AudioOnly = {} /\ WithAudio # {})
          => \E i \in WithAudio : streamURL = Formats[i].url
       /\ streamURL = EmptyURL <=> WithAudio = {}

\* the only play loop, on its way out of an exhausted queue after its
\* track played to the end, runs its ClearAll in this step
ExitClears(l) ==
    /\ nLoops = 1 /\ loops[l].pc = "exitClear" /\ loops'[l].pc = "exitSetLoop"
    /\ \A i \in Pumps : ~pumps[i].failed /\ ~Alive(i)
    /\ \E i \in Pumps : pumps[i].sent

(***************************************************************************)
(* C36: a /play that adds tracks while the play loop is finishing an       *)
(* exhausted queue is not lost: the ClearAll of the loop's exit sequence   *)
(* removes no track that is still waiting behind the cursor.               *)
(***************************************************************************)
C36_PlayDuringExitKept ==
    [][\A l \in Loops : ExitClears(l) => Peek(Tracks, CurrentIndex) = Nil]_vars

\* --------------------------------------------------------------------
\* Tracks whose playback fails twice (commands.go:527-546)
\* --------------------------------------------------------------------
\* play loop l sends the "Track Failed" message and moves on in this step
ReportsFailure(l) == loops[l].pc = "fail" /\ loops'[l].pc = "current"

\* C37: when Play fails on the first attempt and on the retry, the play loop
\* reports the track's failure at most once: it never comes back to report a
\* track it has already reported, with loop on or off.
C37_FailureReportedOnce ==
    [][\A l \in Loops : ReportsFailure(l) => loops[l].track \notin reported]_vars

\* --------------------------------------------------------------------
\* Pause between tracks (part_002:535-542, 368-403)
\* --------------------------------------------------------------------
\* play loop l's call of Play returns nil in this step
PlayReturnsNil(l) ==
    loops[l].pc \in {"play", "retry"} /\ loops'[l].pc = "wait"

\* no playTrack is running
NoPumpActive == \A i \in Pumps : ~Alive(i)

\* C38: a Pause issued while no pump is active does not keep the next track
\* from being played: the play loop's following Play() starts a pump for the
\* current track, so the loop never waits for a completion no pump signals.
C38_PauseBetweenTracksStillPlays ==
    [][\A l \in Loops :
          (PlayReturnsNil(l) /\ NoPumpActive /\ Paused) => nPumps' = nPumps + 1]_vars

\* --------------------------------------------------------------------
\* Seek that returns an error (part_002:591-616)
\* --------------------------------------------------------------------
\* Seek returns an error to handler c in this step: it starts no playTrack
SeekFails(c) == SeekReturns(c) /\ nPumps' = nPumps

\* C39: a Seek that returns an error (no current track, negative position,
\* position beyond the duration of a track that is not live) leaves playback
\* unchanged: Playing has the value it had before the call.
C39_FailedSeekKeepsPlayback ==
    [][\A c \in Cmds : SeekFails(c) => Playing' = (cmds[c].arg = 1)]_vars

(***************************************************************************)
(* The locks of the manager and the player.  A goroutine is [op, pc, p,    *)
(* track]: pc is its call stack, a sequence of [fn, at] with the function  *)
(* it is in first; at is "Lock" or "RLock" while it waits for the mutex of *)
(* fn, "held" once it has it.  p is the number of the player it works on   *)
(* and track the *Track a queue call returned to it.  Every function that  *)
(* locks with "defer Unlock" releases the mutex in the step it returns.    *)
(***************************************************************************)
nonLocks == <<qvars, qlast, cvars, pvars, evars, volvars, fvars, yvars>>

At(fn, at) == [fn |-> fn, at |-> at]

\* where goroutine g is
Top(g) == Head(gos[g].pc)
Running(g) == gos[g].pc # <<>>
Inside(g, fn, at) == Running(g) /\ Top(g) = At(fn, at)

\* the functions that lock Manager.mu, GuildPlayer.mu (playTrack at five
\* places, named by their line in part_002), Queue.mu and the encoder's mu
ManagerFns == {"GetPlayer", "RemovePlayer"}
PlayerFns == {"Play", "playTrack409", "playTrack436", "playTrack443",
              "playTrack463", "playTrack511", "Pause", "Resume", "Stop",
              "Skip", "Seek", "Disconnect"}
QueueFns == {"Current", "Next"}

\* the mutex function fn locks when it works on player p
MutexOf(fn, p) ==
    IF fn \in ManagerFns THEN ManagerMu
    ELSE IF fn \in PlayerFns THEN PlayerMu(p)
    ELSE IF fn \in QueueFns THEN QueueMu(p)
    ELSE EncoderMu(p)

\* goroutine g has called Lock or RLock and has not got the mutex yet
Waiting(g) == Running(g) /\ Top(g).at \in {"Lock", "RLock"}

\* sync.RWMutex: a blocked Lock call keeps new readers out
WriterWaits(mx) ==
    \E h \in Goroutines :
       /\ Running(h) /\ Top(h).at = "Lock"
       /\ MutexOf(Top(h).fn, gos[h].p) = mx

\* g goes on at the labels given, in front of what it will return to; with
\* nothing left the goroutine is over
GoTo(g, labels, p, track) ==
    LET rest == labels \o Tail(gos[g].pc)
    IN [gos EXCEPT ![g] = IF rest = <<>> THEN GoDone
                          ELSE [gos[g] EXCEPT !.pc = rest, !.p = p, !.track = track]]

Continue(g, labels) == GoTo(g, labels, gos[g].p, gos[g].track)
Returned(g) == Continue(g, <<>>)

Unlock(mx) == holder' = [holder EXCEPT ![mx] = 0] /\ UNCHANGED readers
RUnlock(mx, g) == readers' = [readers EXCEPT ![mx] = @ \ {g}] /\ UNCHANGED holder
KeepLocks == UNCHANGED <<holder, readers>>

\* sync.Mutex.Lock, sync.RWMutex.Lock: returns when nobody holds the mutex
Lock(g) ==
    /\ Running(g) /\ Top(g).at = "Lock"
    /\ LET mx == MutexOf(Top(g).fn, gos[g].p)
       IN /\ holder[mx] = 0 /\ readers[mx] = {}
          /\ holder' = [holder EXCEPT ![mx] = g]
    /\ gos' = Continue(g, <<At(Top(g).fn, "held")>>)
    /\ UNCHANGED <<readers, gp, players, nPlayers>>
    /\ UNCHANGED nonLocks

\* sync.RWMutex.RLock: returns when no writer holds the mutex or waits for it
RLock(g) ==
    /\ Running(g) /\ Top(g).at = "RLock"
    /\ LET mx == MutexOf(Top(g).fn, gos[g].p)
       IN /\ holder[mx] = 0 /\ ~WriterWaits(mx)
          /\ readers' = [readers EXCEPT ![mx] = @ \cup {g}]
    /\ gos' = Continue(g, <<At(Top(g).fn, "held")>>)
    /\ UNCHANGED <<holder, gp, players, nPlayers>>
    /\ UNCHANGED nonLocks

\* the handlers: each begins with b.PlayerManager.GetPlayer(i.GuildID)
Handlers == {"Play", "Pause", "Resume", "Stop", "Skip", "Seek", "Disconnect"}

\* what handler op calls after GetPlayer: Skip, Seek and Disconnect begin
\* with p.Stop() (part_002:579, 594, 658)
Program(op) ==
    IF op \in {"Skip", "Seek", "Disconnect"}
    THEN <<At("Stop", "Lock"), At(op, IF op = "Skip" THEN "RLock" ELSE "Lock")>>
    ELSE <<At(op, "Lock")>>

\* goroutines are started in the order of their numbers
MayStart(g) == gos[g].op = "none" /\ (IF g = 1 THEN TRUE ELSE gos[g - 1].op # "none")

\* a command arrives: its handler asks the manager for the player
Handle(g) ==
    /\ MayStart(g)
    /\ gos' = [gos EXCEPT ![g] = [NoGo EXCEPT !.op = "handler",
                  !.pc = <<At("GetPlayer", "Lock")>>]]
    /\ UNCHANGED <<holder, readers, gp, players, nPlayers>>
    /\ UNCHANGED nonLocks

\* RemovePlayer calls that have not returned
Removing == Cardinality({g \in Goroutines : gos[g].op = "RemovePlayer"})

\* RemovePlayer is called, while the manager can still create the player
\* that the next GetPlayer will ask for
RemovePlayerCall(g) ==
    /\ MayStart(g)
    /\ nPlayers + Removing + (IF players = 0 THEN 1 ELSE 0) < MaxPlayers
    /\ gos' = [gos EXCEPT ![g] = [NoGo EXCEPT !.op = "RemovePlayer",
                  !.pc = <<At("RemovePlayer", "Lock")>>]]
    /\ UNCHANGED <<holder, readers, gp, players, nPlayers>>
    /\ UNCHANGED nonLocks

\* "go p.playTrack(track)" of Play or Seek begins to run
GoPlayTrack(g) ==
    /\ MayStart(g)
    /\ \E p \in 1..nPlayers :
          /\ gp[p].spawned > 0
          /\ gp' = [gp EXCEPT ![p].spawned = @ - 1]
          /\ gos' = [gos EXCEPT ![g] = [NoGo EXCEPT !.op = "playTrack", !.p = p,
                        !.pc = <<At("playTrack409", "Lock")>>]]
    /\ UNCHANGED <<holder, readers, players, nPlayers>>
    /\ UNCHANGED nonLocks

\* the play loop of player p calls p.Queue.Next() (commands.go:484, 576)
QueueNextCall(g) ==
    /\ MayStart(g)
    /\ \E p \in 1..nPlayers :
          gos' = [gos EXCEPT ![g] = [NoGo EXCEPT !.op = "Next", !.p = p,
                     !.pc = <<At("Next", "Lock")>>]]
    /\ UNCHANGED <<holder, readers, gp, players, nPlayers>>
    /\ UNCHANGED nonLocks

\* the handler of command op goes on with the player p it was given
Handler(g, op, p) ==
    [gos EXCEPT ![g] = [op |-> op, pc |-> Program(op), p |-> p, track |-> Nil]]

\* a GetPlayer that returns without the deferred m.mu.Unlock()
GetPlayerKeepsLock(g) ==
    /\ Inside(g, "GetPlayer", "held")
    /\ \E op \in Handlers :
          IF players # 0
          THEN /\ gos' = Handler(g, op, players)
               /\ UNCHANGED <<gp, players, nPlayers>>
          ELSE /\ nPlayers < MaxPlayers
               /\ gp' = [gp EXCEPT ![nPlayers + 1] = NewPlayer]
               /\ players' = nPlayers + 1
               /\ nPlayers' = nPlayers + 1
               /\ gos' = Handler(g, op, nPlayers + 1)
    /\ KeepLocks
    /\ UNCHANGED nonLocks

\* Manager.GetPlayer (part_002:336-354) with m.mu held; the handler that
\* called it is the handler of any of the commands
GetPlayerLocks(g) ==
    /\ Inside(g, "GetPlayer", "held")
    /\ \E op \in Handlers :
          IF players # 0
          THEN /\ gos' = Handler(g, op, players)
               /\ UNCHANGED <<gp, players, nPlayers>>
          ELSE /\ nPlayers < MaxPlayers
               /\ gp' = [gp EXCEPT ![nPlayers + 1] = NewPlayer]
               /\ players' = nPlayers + 1
               /\ nPlayers' = nPlayers + 1
               /\ gos' = Handler(g, op, nPlayers + 1)
    /\ Unlock(ManagerMu)
    /\ UNCHANGED nonLocks

\* Manager.RemovePlayer (part_002:357-365): player.Stop() with m.mu held,
\* then the delete
RemovePlayerLocks(g) ==
    /\ \/ /\ Inside(g, "RemovePlayer", "held")
          /\ IF players # 0
             THEN /\ gos' = GoTo(g, <<At("Stop", "Lock"), At("RemovePlayer", "delete")>>,
                                 players, Nil)
                  /\ KeepLocks
             ELSE /\ gos' = Returned(g)
                  /\ Unlock(ManagerMu)
          /\ UNCHANGED players
       \/ /\ Inside(g, "RemovePlayer", "delete")
          /\ players' = 0
          /\ gos' = Returned(g)
          /\ Unlock(ManagerMu)
    /\ UNCHANGED <<gp, nPlayers>>
    /\ UNCHANGED nonLocks

\* GuildPlayer.Stop (part_002:556-575) with p.mu held: the flags, the stop
\* token, and Cleanup of the encoder if there is one
StopLocks(g) ==
    LET p == gos[g].p
    IN /\ \/ /\ Inside(g, "Stop", "held")
             /\ gp' = [gp EXCEPT ![p].Paused = FALSE, ![p].stop = TRUE]
             /\ IF gp[p].encoder
                THEN /\ gos' = Continue(g, <<At("Cleanup", "Lock"), At("Stop", "nil")>>)
                     /\ KeepLocks
                ELSE /\ gos' = Returned(g)
                     /\ Unlock(PlayerMu(p))
          \/ /\ Inside(g, "Stop", "nil")
             /\ gp' = [gp EXCEPT ![p].encoder = FALSE]
             /\ gos' = Returned(g)
             /\ Unlock(PlayerMu(p))
       /\ UNCHANGED <<players, nPlayers>>
       /\ UNCHANGED nonLocks

\* StreamingEncoder.Cleanup (part_003:250-274) with e.mu held: the done
\* flag, the kill, and ffmpegCmd.Wait(), which returns when the killed
\* subprocess has exited
CleanupLocks(g) ==
    LET p == gos[g].p
    IN /\ \/ /\ Inside(g, "Cleanup", "held")
             /\ IF gp[p].done
                THEN /\ gos' = Returned(g)
                     /\ Unlock(EncoderMu(p))
                     /\ UNCHANGED gp
                ELSE /\ gp' = [gp EXCEPT ![p].done = TRUE]
                     /\ gos' = Continue(g, <<At("Cleanup", "Wait")>>)
                     /\ KeepLocks
          \/ /\ Inside(g, "Cleanup", "Wait")
             /\ gos' = Returned(g)
             /\ Unlock(EncoderMu(p))
             /\ UNCHANGED gp
       /\ UNCHANGED <<players, nPlayers>>
       /\ UNCHANGED nonLocks

\* Queue.Current (track.go:84-92) and Queue.Next (track.go:59-81) with q.mu
\* held; the loop flag of the queue is off
QueueLocks(g) ==
    LET p == gos[g].p
    IN /\ \/ /\ Inside(g, "Current", "held")
             /\ gos' = GoTo(g, <<>>, p, Current(gp[p].Tracks, gp[p].CurrentIndex))
             /\ RUnlock(QueueMu(p), g)
             /\ UNCHANGED gp
          \/ /\ Inside(g, "Next", "held")
             /\ gp' = [gp EXCEPT ![p].CurrentIndex =
                          NextIndex(gp[p].Tracks, gp[p].CurrentIndex, FALSE)]
             /\ gos' = GoTo(g, <<>>, p, NextTrack(gp[p].Tracks, gp[p].CurrentIndex, FALSE))
             /\ Unlock(QueueMu(p))
       /\ UNCHANGED <<players, nPlayers>>
       /\ UNCHANGED nonLocks

\* GuildPlayer.Play (part_002:368-403) with p.mu held
PlayLocks(g) ==
    LET p == gos[g].p
    IN /\ \/ /\ Inside(g, "Play", "held")
             /\ IF ~gp[p].VoiceConnection
                THEN /\ gos' = Returned(g)
                     /\ Unlock(PlayerMu(p))
                     /\ UNCHANGED gp
                ELSE IF gp[p].Paused
                THEN /\ gp' = [gp EXCEPT ![p].Paused = FALSE]
                     /\ gos' = Returned(g)
                     /\ Unlock(PlayerMu(p))
                ELSE /\ gos' = Continue(g, <<At("Current", "RLock"), At("Play", "track")>>)
                     /\ KeepLocks
                     /\ UNCHANGED gp
          \/ /\ Inside(g, "Play", "track")
             /\ IF gos[g].track = Nil
                THEN /\ gos' = Continue(g, <<At("Next", "Lock"), At("Play", "next")>>)
                     /\ KeepLocks
                     /\ UNCHANGED gp
                ELSE /\ gp' = [gp EXCEPT ![p].Paused = FALSE, ![p].spawned = @ + 1]
                     /\ gos' = Returned(g)
                     /\ Unlock(PlayerMu(p))
          \/ /\ Inside(g, "Play", "next")
             /\ gp' = IF gos[g].track = Nil THEN gp
                      ELSE [gp EXCEPT ![p].Paused = FALSE, ![p].spawned = @ + 1]
             /\ gos' = Returned(g)
             /\ Unlock(PlayerMu(p))
       /\ UNCHANGED <<players, nPlayers>>
       /\ UNCHANGED nonLocks

\* GuildPlayer.Pause (part_002:536-542) with p.mu held
PauseLocks(g) ==
    /\ Inside(g, "Pause", "held")
    /\ gp' = [gp EXCEPT ![gos[g].p].Paused = TRUE]
    /\ gos' = Returned(g)
    /\ Unlock(PlayerMu(gos[g].p))
    /\ UNCHANGED <<players, nPlayers>>
    /\ UNCHANGED nonLocks

\* GuildPlayer.Resume (part_002:545-553) with p.mu held
ResumeLocks(g) ==
    /\ Inside(g, "Resume", "held")
    /\ gp' = [gp EXCEPT ![gos[g].p].Paused = FALSE]
    /\ gos' = Returned(g)
    /\ Unlock(PlayerMu(gos[g].p))
    /\ UNCHANGED <<players, nPlayers>>
    /\ UNCHANGED nonLocks

\* GuildPlayer.Skip after its Stop (part_002:581-588): a look at the queue
\* with p.mu read-locked
SkipLocks(g) ==
    /\ Inside(g, "Skip", "held")
    /\ gos' = Returned(g)
    /\ RUnlock(PlayerMu(gos[g].p), g)
    /\ UNCHANGED <<gp, players, nPlayers>>
    /\ UNCHANGED nonLocks

\* GuildPlayer.Seek after its Stop (part_002:596-615) with p.mu held
SeekLocks(g) ==
    LET p == gos[g].p
    IN /\ \/ /\ Inside(g, "Seek", "held")
             /\ gos' = Continue(g, <<At("Current", "RLock"), At("Seek", "track")>>)
             /\ KeepLocks
             /\ UNCHANGED gp
          \/ /\ Inside(g, "Seek", "track")
             /\ \E position \in SeekPositions :
                   gp' = IF gos[g].track # Nil /\ SeekValid(gos[g].track, position)
                         THEN [gp EXCEPT ![p].Paused = FALSE, ![p].spawned = @ + 1]
                         ELSE gp
             /\ gos' = Returned(g)
             /\ Unlock(PlayerMu(p))
       /\ UNCHANGED <<players, nPlayers>>
       /\ UNCHANGED nonLocks

\* GuildPlayer.Disconnect after its Stop (part_002:660-669) with p.mu held:
\* VoiceConnection.Disconnect is called and returns
DisconnectLocks(g) ==
    LET p == gos[g].p
    IN /\ \/ /\ Inside(g, "Disconnect", "held")
             /\ IF gp[p].VoiceConnection
                THEN /\ gos' = Continue(g, <<At("Disconnect", "call")>>)
                     /\ KeepLocks
                ELSE /\ gos' = Returned(g)
                     /\ Unlock(PlayerMu(p))
             /\ UNCHANGED gp
          \/ /\ Inside(g, "Disconnect", "call")
             /\ gp' = [gp EXCEPT ![p].VoiceConnection = FALSE]
             /\ gos' = Returned(g)
             /\ Unlock(PlayerMu(p))
       /\ UNCHANGED <<players, nPlayers>>
       /\ UNCHANGED nonLocks

\* playTrack (part_002:405-524) up to its frame loop: the voice connection
\* is read with p.mu held (409-416), the encoder is made with no lock held,
\* and p.mu is asked for again for the failure (436-438) or to store the
\* encoder (443-445)
playTrackStarts(g) ==
    LET p == gos[g].p
    IN /\ \/ /\ Inside(g, "playTrack409", "held")
             /\ IF gp[p].VoiceConnection
                THEN \E err \in BOOLEAN :
                        gos' = Continue(g, <<At(IF err THEN "playTrack436"
                                                 ELSE "playTrack443", "Lock")>>)
                ELSE gos' = Returned(g)
             /\ Unlock(PlayerMu(p))
             /\ UNCHANGED gp
          \/ /\ Inside(g, "playTrack436", "held")
             /\ gos' = Returned(g)
             /\ Unlock(PlayerMu(p))
             /\ UNCHANGED gp
          \/ /\ Inside(g, "playTrack443", "held")
             /\ gp' = [gp EXCEPT ![p].encoder = TRUE, ![p].done = FALSE]
             /\ gos' = Continue(g, <<At("playTrack463", "RLock")>>)
             /\ Unlock(PlayerMu(p))
       /\ UNCHANGED <<players, nPlayers>>
       /\ UNCHANGED nonLocks

\* the frame loop of playTrack (part_002:461-504): the pause flag is read
\* with p.mu read-locked, then the stop token is looked for, a frame is
\* taken from the encoder and sent unless the stop token comes first
playTrackFrames(g) ==
    LET p == gos[g].p
    IN /\ Inside(g, "playTrack463", "held")
       /\ RUnlock(PlayerMu(p), g)
       /\ IF gp[p].Paused
          THEN \* time.Sleep, continue
               /\ gos' = Continue(g, <<At("playTrack463", "RLock")>>)
               /\ UNCHANGED gp
          ELSE IF gp[p].stop
          THEN \* the stop token: return without the cleanup
               /\ gp' = [gp EXCEPT ![p].stop = FALSE]
               /\ gos' = Returned(g)
          ELSE \* OpusFrame fails or ends, or the frame is sent
               /\ \E eof \in BOOLEAN :
                     gos' = Continue(g, <<IF eof THEN At("playTrack511", "Lock")
                                          ELSE At("playTrack463", "RLock")>>)
               /\ UNCHANGED gp
       /\ UNCHANGED <<players, nPlayers>>
       /\ UNCHANGED nonLocks

\* the cleanup of playTrack at the end of the track (part_002:511-523) with
\* p.mu held
playTrackCleanup(g) ==
    LET p == gos[g].p
    IN /\ \/ /\ Inside(g, "playTrack511", "held")
             /\ IF gp[p].encoder
                THEN /\ gos' = Continue(g, <<At("Cleanup", "Lock"), At("playTrack511", "nil")>>)
                     /\ KeepLocks
                ELSE /\ gos' = Returned(g)
                     /\ Unlock(PlayerMu(p))
             /\ UNCHANGED gp
          \/ /\ Inside(g, "playTrack511", "nil")
             /\ gp' = [gp EXCEPT ![p].encoder = FALSE]
             /\ gos' = Returned(g)
             /\ Unlock(PlayerMu(p))
       /\ UNCHANGED <<players, nPlayers>>
       /\ UNCHANGED nonLocks

\* one step of goroutine g once it runs
GoStep(g) ==
    \/ Lock(g) \/ RLock(g)
    \/ GetPlayerLocks(g) \/ RemovePlayerLocks(g)
    \/ StopLocks(g) \/ CleanupLocks(g) \/ QueueLocks(g)
    \/ PlayLocks(g) \/ PauseLocks(g) \/ ResumeLocks(g)
    \/ SkipLocks(g) \/ SeekLocks(g) \/ DisconnectLocks(g)
    \/ playTrackStarts(g) \/ playTrackFrames(g) \/ playTrackCleanup(g)

\* the same player while its track plays: playTrack is in its frame loop
\* and has stored the encoder
LocksPlaying ==
    /\ holder = [mx \in Mutexes |-> 0]
    /\ readers = [mx \in Mutexes |-> {}]
    /\ gos = [g \in Goroutines |->
                IF g = 1 THEN [op |-> "playTrack", pc |-> <<At("playTrack463", "RLock")>>,
                               p |-> 1, track |-> Nil]
                ELSE NoGo]
    /\ gp = [p \in PlayerIds |->
               IF p = 1 THEN [NewPlayer EXCEPT !.VoiceConnection = TRUE, !.Tracks = <<1>>,
                                               !.CurrentIndex = 0, !.encoder = TRUE]
               ELSE NewPlayer]
    /\ players = 1
    /\ nPlayers = 1

InitLocks ==
    /\ QueueNew /\ CacheUnused /\ PlayerNew /\ EncoderNew /\ VolumeNew /\ FramingNew /\ FormatsNew
    /\ (LocksNew \/ LocksPlaying)

NextLocks ==
    \E g \in Goroutines :
       \/ Handle(g) \/ RemovePlayerCall(g) \/ GoPlayTrack(g) \/ QueueNextCall(g)
       \/ GoStep(g)

\* a goroutine that runs is scheduled, and the mutexes wake their waiters
SpecLocks ==
    InitLocks /\ [][NextLocks]_vars /\ \A g \in Goroutines : WF_vars(GoStep(g))

====
